---------------------------- MODULE Spec2Model ----------------------------
(***************************************************************************)
(* A model of the KML import pipeline of JustFarming                       *)
(* (backend/app/api/v1/routes_kml.py): the coordinate parser, the geodesic *)
(* area engine, the document walker, the geometry normalizer, the raw-XML  *)
(* fallback and the import_kml handler with its database session; and of   *)
(* the mobs and movements API (routes_mobs.py, routes_movements.py) and    *)
(* the CORS configuration (main.py).                                       *)
(*                                                                         *)
(* Text is a sequence of one-character strings.  Coordinates are integers  *)
(* on a planar lattice whose half cell measures one hectare: the signed    *)
(* area of a ring stands for pyproj's signed geodesic area (positive for   *)
(* counter-clockwise traversal).                                           *)
(***************************************************************************)
EXTENDS Integers, Sequences, FiniteSets, TLC

VARIABLES
    store,      \* the database: the committed rows
    pc,         \* pc[r]: where request r stands in its handler
    req,        \* req[r]: what request r sent (the upload, the body)
    loc,        \* loc[r]: the local variables of the handler in request r
    session,    \* session[r]: the objects added to r's session, not yet committed
    hist,       \* hist[r]: history of request r (what it added, whether the fallback ran)
    resp,       \* resp[r]: the HTTP response of request r
    input,      \* the argument of the pure function under check
    output      \* its result

importVars == <<store, pc, req, loc, session, hist, resp>>
fnVars == <<input, output>>
vars == <<store, pc, req, loc, session, hist, resp, input, output>>

(***************************************************************************)
(* Bounds of the model.                                                    *)
(***************************************************************************)
MaxChunks == 3

(***************************************************************************)
(* Sequence helpers.                                                       *)
(***************************************************************************)
Last(s) == s[Len(s)]

RECURSIVE SumSeq(_)
SumSeq(s) == IF s = <<>> THEN 0 ELSE Head(s) + SumSeq(Tail(s))

RECURSIVE Flatten(_)
Flatten(ss) == IF ss = <<>> THEN <<>> ELSE Head(ss) \o Flatten(Tail(ss))

Range(s) == {s[i] : i \in DOMAIN s}

Abs(x) == IF x < 0 THEN -x ELSE x

Max(a, b) == IF a >= b THEN a ELSE b

SeqsUpTo(S, n) == UNION {[1..k -> S] : k \in 0..n}

(***************************************************************************)
(* The pure-function harness: input holds a call (the function's name and  *)
(* its arguments), output its result.                                      *)
(***************************************************************************)
NoCall == [fn |-> "none"]
NotCalled == [done |-> FALSE, ret |-> <<>>]
Returned(v) == [done |-> TRUE, ret |-> v]
\* The call ended with an exception.
Thrown == [done |-> TRUE, ret |-> <<>>, thrown |-> TRUE]
Threw(o) == "thrown" \in DOMAIN o
FnIdle == input = NoCall /\ output = NotCalled
ImportIdle ==
    /\ store = {} /\ pc = <<>> /\ req = <<>> /\ loc = <<>>
    /\ session = <<>> /\ hist = <<>> /\ resp = <<>>

(***************************************************************************)
(* 4.1 Coordinate parser.                                                  *)
(***************************************************************************)
Whitespace == {" ", "\n", "\t"}
Digits == {"0", "1", "2", "3", "4", "5", "6", "7", "8", "9"}
DigitVal(c) ==
    CASE c = "0" -> 0 [] c = "1" -> 1 [] c = "2" -> 2 [] c = "3" -> 3
      [] c = "4" -> 4 [] c = "5" -> 5 [] c = "6" -> 6 [] c = "7" -> 7
      [] c = "8" -> 8 [] c = "9" -> 9

\* str.split(): the maximal runs of non-whitespace characters, in order.
RECURSIVE SplitWs(_, _)
SplitWs(text, cur) ==
    IF text = <<>> THEN (IF cur = <<>> THEN <<>> ELSE <<cur>>)
    ELSE IF Head(text) \in Whitespace
         THEN (IF cur = <<>> THEN <<>> ELSE <<cur>>) \o SplitWs(Tail(text), <<>>)
         ELSE SplitWs(Tail(text), Append(cur, Head(text)))

\* str.split(","): the pieces between commas, empty pieces kept.
RECURSIVE SplitComma(_, _)
SplitComma(chunk, cur) ==
    IF chunk = <<>> THEN <<cur>>
    ELSE IF Head(chunk) = ","
         THEN <<cur>> \o SplitComma(Tail(chunk), <<>>)
         ELSE SplitComma(Tail(chunk), Append(cur, Head(chunk)))

RECURSIVE DigitsVal(_, _)
DigitsVal(ds, acc) ==
    IF ds = <<>> THEN acc ELSE DigitsVal(Tail(ds), 10 * acc + DigitVal(Head(ds)))

\* float(): an optional sign and one or more decimal digits; anything else
\* (the empty string too) raises ValueError.
FloatOk(part) ==
    LET body == IF part # <<>> /\ Head(part) \in {"-", "+"} THEN Tail(part) ELSE part
    IN  body # <<>> /\ \A i \in DOMAIN body : body[i] \in Digits
FloatVal(part) ==
    IF Head(part) = "-" THEN -DigitsVal(Tail(part), 0)
    ELSE IF Head(part) = "+" THEN DigitsVal(Tail(part), 0)
    ELSE DigitsVal(part, 0)

\* A faulty loop body: a chunk with an altitude is skipped.
ChunkPointPairsOnly(parts, rest) ==
    IF Len(parts) # 2 THEN rest
    ELSE IF FloatOk(parts[1]) /\ FloatOk(parts[2])
         THEN <<(<<FloatVal(parts[1]), FloatVal(parts[2])>>)>> \o rest
         ELSE rest

\* The loop of _parse_coordinates: the points of the chunks that parse.
\* One pass of the loop body: parts is chunk.split(","), rest the points of
\* the chunks that follow.
ChunkPoint(parts, rest) ==
    IF Len(parts) < 2 THEN rest
    ELSE IF FloatOk(parts[1]) /\ FloatOk(parts[2])
         THEN <<(<<FloatVal(parts[1]), FloatVal(parts[2])>>)>> \o rest
         ELSE rest

RECURSIVE ChunkPoints(_)
ChunkPoints(chunks) ==
    IF chunks = <<>> THEN <<>>
    ELSE ChunkPoint(SplitComma(Head(chunks), <<>>), ChunkPoints(Tail(chunks)))

ParsedPoints(text) == IF text = <<>> THEN <<>> ELSE ChunkPoints(SplitWs(text, <<>>))

\* A faulty closing step: closes the ring without looking at its last point.
CloseRingAlways(pts) == IF pts # <<>> THEN Append(pts, pts[1]) ELSE pts

CloseRing(pts) ==
    IF pts # <<>> /\ pts[1] # Last(pts) THEN Append(pts, pts[1]) ELSE pts

_parse_coordinates(text) == CloseRing(ParsedPoints(text))

(***************************************************************************)
(* Coordinate texts: up to MaxChunks words of a small vocabulary, joined   *)
(* by single spaces (the empty word gives leading, trailing and doubled    *)
(* whitespace).                                                            *)
(***************************************************************************)
RECURSIVE JoinWords(_)
JoinWords(ws) ==
    IF ws = <<>> THEN <<>>
    ELSE IF Len(ws) = 1 THEN Head(ws)
    ELSE Head(ws) \o <<" ">> \o JoinWords(Tail(ws))

CoordWords ==
    { <<"0", ",", "0">>, <<"1", ",", "0">>, <<"1", ",", "1">>,
      <<"0", ",", "1", ",", "9">>, <<"-", "1", ",", "0">>,
      <<"5">>, <<"x", ",", "1">>, <<"1", ",">>, <<>>, <<"\n">>,
      <<"1", "0", ",", "2">>, <<"1", ",", "2", ",", "x">> }

CoordTexts == {JoinWords(ws) : ws \in SeqsUpTo(CoordWords, MaxChunks)}

InitCoords ==
    /\ input \in [fn : {"_parse_coordinates"}, text : CoordTexts]
    /\ output = NotCalled
    /\ ImportIdle

ParseCoordinates ==
    /\ input.fn = "_parse_coordinates"
    /\ ~output.done
    /\ output' = Returned(_parse_coordinates(input.text))
    /\ UNCHANGED <<input, importVars>>

NextCoords == ParseCoordinates

SpecCoords == InitCoords /\ [][NextCoords]_vars

(***************************************************************************)
(* Geometry values (shapely): records tagged by type.                      *)
(*   Polygon            exterior (a ring), interiors (a sequence of rings) *)
(*   MultiPolygon       geoms (a sequence of Polygons)                     *)
(*   GeometryCollection geoms (a sequence of geometries)                   *)
(*   LineString         coords                                             *)
(*   Point              coords (one point)                                 *)
(* A ring is a sequence of <<lon, lat>> points.                            *)
(***************************************************************************)
Polygon(ext, holes) == [type |-> "Polygon", exterior |-> ext, interiors |-> holes]
MultiPolygon(ps) == [type |-> "MultiPolygon", geoms |-> ps]
GeometryCollection(gs) == [type |-> "GeometryCollection", geoms |-> gs]
LineString(cs) == [type |-> "LineString", coords |-> cs]
Point(x, y) == [type |-> "Point", coords |-> <<(<<x, y>>)>>]

IsPolygon(g) == g.type = "Polygon"
IsMultiPolygon(g) == g.type = "MultiPolygon"
HasGeoms(g) == g.type \in {"MultiPolygon", "GeometryCollection"}

\* A rectangle ring, closed, counter-clockwise or clockwise.
Rect(x0, y0, x1, y1, ccw) ==
    IF ccw THEN <<(<<x0, y0>>), <<x1, y0>>, <<x1, y1>>, <<x0, y1>>, <<x0, y0>>>>
    ELSE <<(<<x0, y0>>), <<x0, y1>>, <<x1, y1>>, <<x1, y0>>, <<x0, y0>>>>

(***************************************************************************)
(* 4.6 Geodesic area engine.                                               *)
(***************************************************************************)
SqMPerHa == 10000

\* Twice the signed planar area of the polygon through coords (closed
\* implicitly), positive when traversed counter-clockwise.
Shoelace2(coords) ==
    LET n == Len(coords)
        nxt(i) == IF i = n THEN 1 ELSE i + 1
    IN  SumSeq([i \in 1..n |->
            coords[i][1] * coords[nxt(i)][2] - coords[nxt(i)][1] * coords[i][2]])

\* geod.polygon_area_perimeter(lons, lats)[0]: the signed area of one ring,
\* in square metres.
polygon_area_perimeter(coords) == SqMPerHa * Shoelace2(coords)

\* geod.geometry_area_perimeter(geometry)[0] (pyproj): a ring's signed area;
\* for a Polygon the signed area of the exterior plus the signed areas of
\* the interiors (holes count negative only when wound the other way); for
\* a multi-part geometry the sum over the parts.
RECURSIVE geometry_area_perimeter(_)
geometry_area_perimeter(g) ==
    IF g.type \in {"LineString", "Point"} THEN polygon_area_perimeter(g.coords)
    ELSE IF IsPolygon(g)
    THEN polygon_area_perimeter(g.exterior)
         + SumSeq([i \in DOMAIN g.interiors |-> polygon_area_perimeter(g.interiors[i])])
    ELSE SumSeq([i \in DOMAIN g.geoms |-> geometry_area_perimeter(g.geoms[i])])

\* Lines 20-23.  coords has points wherever it is called: the exterior is
\* tested at line 24 and the holes of the model's polygons have coordinates
\* (zip(*coords) of no points cannot be unpacked).
ring_area(coords) == polygon_area_perimeter(coords)

\* A faulty except branch: the difference is not clamped.
RingDecompositionUnclamped(g) ==
    LET ext == IF g.exterior # <<>> THEN Abs(ring_area(g.exterior)) ELSE 0
        holes == SumSeq([i \in DOMAIN g.interiors |-> Abs(ring_area(g.interiors[i]))])
    IN  ext - holes

\* The except branch for a Polygon: exterior minus holes, clamped at zero.
RingDecompositionArea(g) ==
    LET ext == IF g.exterior # <<>> THEN Abs(ring_area(g.exterior)) ELSE 0
        holes == SumSeq([i \in DOMAIN g.interiors |-> Abs(ring_area(g.interiors[i]))])
    IN  Max(ext - holes, 0)

\* Faulty variants of the two result lines: the sign is kept.
PrimaryAreaSigned(g) == geometry_area_perimeter(g)

PrimaryArea(g) == Abs(geometry_area_perimeter(g))

\* geodesic_area_m2(geometry).  raises: whether geod.geometry_area_perimeter
\* raises in this deployment (it does not exist before pyproj 2.3).
RECURSIVE geodesic_area_m2(_, _)
geodesic_area_m2(g, raises) ==
    IF ~raises THEN PrimaryArea(g)
    ELSE IF IsPolygon(g) THEN RingDecompositionArea(g)
    ELSE IF IsMultiPolygon(g)
    THEN SumSeq([i \in DOMAIN g.geoms |-> geodesic_area_m2(g.geoms[i], raises)])
    ELSE 0

\* area_ha = geodesic_area_m2(poly) / 10_000.0
AreaHa(g, raises) == geodesic_area_m2(g, raises) \div SqMPerHa

(***************************************************************************)
(* Validity of a polygon whose rings are rectangles (shapely's is_valid,   *)
(* which does not look at the winding of a ring): the exterior and every   *)
(* hole enclose area, every hole lies strictly inside the exterior and no  *)
(* two holes meet.                                                         *)
(***************************************************************************)
MinOf(S) == CHOOSE m \in S : \A x \in S : m <= x
MaxOf(S) == CHOOSE m \in S : \A x \in S : m >= x
BBox(ring) ==
    [x0 |-> MinOf({ring[i][1] : i \in DOMAIN ring}),
     x1 |-> MaxOf({ring[i][1] : i \in DOMAIN ring}),
     y0 |-> MinOf({ring[i][2] : i \in DOMAIN ring}),
     y1 |-> MaxOf({ring[i][2] : i \in DOMAIN ring})]
Inside(a, b) == b.x0 < a.x0 /\ a.x1 < b.x1 /\ b.y0 < a.y0 /\ a.y1 < b.y1
Apart(a, b) == a.x1 < b.x0 \/ b.x1 < a.x0 \/ a.y1 < b.y0 \/ b.y1 < a.y0
RingOk(ring) == Len(ring) >= 4 /\ ring[1] = Last(ring) /\ Shoelace2(ring) # 0
IsValid(p) ==
    /\ RingOk(p.exterior)
    /\ \A i \in DOMAIN p.interiors :
          /\ RingOk(p.interiors[i])
          /\ Inside(BBox(p.interiors[i]), BBox(p.exterior))
    /\ \A i, j \in DOMAIN p.interiors :
          i < j => Apart(BBox(p.interiors[i]), BBox(p.interiors[j]))

\* p without its i-th hole.
WithoutHole(p, i) ==
    Polygon(p.exterior,
            [k \in 1..(Len(p.interiors) - 1) |->
                IF k < i THEN p.interiors[k] ELSE p.interiors[k + 1]])

(***************************************************************************)
(* The geometries geodesic_area_m2 is applied to: polygons with up to      *)
(* MaxHoles holes of either winding (holes inside, and one larger than the *)
(* exterior), an empty polygon, multi-part and non-polygon geometries.     *)
(***************************************************************************)
MaxHoles == 2

AreaExteriors ==
    {Rect(0, 0, 6, 6, TRUE), Rect(0, 0, 6, 6, FALSE),
     Rect(1, 1, 2, 2, TRUE), Rect(1, 1, 2, 2, FALSE), <<>>}
AreaHoles ==
    {Rect(1, 1, 2, 2, w) : w \in BOOLEAN} \cup {Rect(3, 3, 5, 5, w) : w \in BOOLEAN}
        \cup {Rect(-1, -1, 7, 7, w) : w \in BOOLEAN}
AreaPolygons ==
    {Polygon(e, hs) : e \in AreaExteriors, hs \in SeqsUpTo(AreaHoles, MaxHoles)}
AreaParts ==
    {Polygon(Rect(0, 0, 6, 6, TRUE), <<>>), Polygon(Rect(0, 0, 6, 6, FALSE), <<>>),
     Polygon(Rect(0, 0, 6, 6, TRUE), <<Rect(1, 1, 2, 2, FALSE)>>),
     Polygon(Rect(8, 8, 9, 9, FALSE), <<>>)}
AreaGeometries ==
    AreaPolygons
        \cup {MultiPolygon(ps) : ps \in SeqsUpTo(AreaParts, 2)}
        \cup {LineString(<<(<<0, 0>>), <<2, 0>>, <<2, 2>>>>), Point(1, 1),
              GeometryCollection(<<Polygon(Rect(0, 0, 6, 6, FALSE), <<>>), Point(1, 1)>>)}

InitArea ==
    /\ input \in [fn : {"geodesic_area_m2"}, geometry : AreaGeometries, raises : BOOLEAN]
    /\ output = NotCalled
    /\ ImportIdle

GeodesicArea ==
    /\ input.fn = "geodesic_area_m2"
    /\ ~output.done
    /\ output' = Returned(geodesic_area_m2(input.geometry, input.raises))
    /\ UNCHANGED <<input, importVars>>

NextArea == GeodesicArea

SpecArea == InitArea /\ [][NextArea]_vars

(***************************************************************************)
(* 4.2 Document walker.  A node of the structured document (fastkml):      *)
(*   name      the display name, or None                                   *)
(*   geometry  a geometry, or NoGeometry                                   *)
(*   features  how the node enumerates its children:                       *)
(*             kind "absent"        no features attribute                  *)
(*             kind "callable"      a method; raises says whether it throws*)
(*             kind "iterable"      a plain attribute that can be listed   *)
(*             kind "not_iterable"  an attribute list() rejects (TypeError)*)
(*             kind "iter_raises"   an attribute whose iteration throws    *)
(*                                  something other than TypeError         *)
(*             with kids, the children                                     *)
(***************************************************************************)
None == "<None>"
NoGeometry == [type |-> "None"]

Node(name, geom, kind, kids) ==
    [name |-> name, geometry |-> geom, features |-> [kind |-> kind, kids |-> kids]]
Placemark(name, geom) == Node(name, geom, "absent", <<>>)
Folder(kids) == Node("Folder", NoGeometry, "callable", kids)
Document(kids) == Node(None, NoGeometry, "callable", kids)

\* iter_features(container): [raised, list]; raised when the exception
\* leaves the function.
iter_features(container) ==
    LET f == container.features
    IN  CASE f.kind = "absent" -> [raised |-> FALSE, list |-> <<>>]
          [] f.kind = "callable" -> [raised |-> FALSE, list |-> f.kids]
          [] f.kind = "callable_raises" -> [raised |-> FALSE, list |-> <<>>]
          [] f.kind = "iterable" -> [raised |-> FALSE, list |-> f.kids]
          [] f.kind = "not_iterable" -> [raised |-> FALSE, list |-> <<>>]
          [] f.kind = "iter_raises" -> [raised |-> TRUE, list |-> <<>>]

\* iter_placemarks(container): [items, raised]: the nodes yielded, in order,
\* up to the point where an exception (if any) leaves the generator.
RECURSIVE iter_placemarks(_)
RECURSIVE WalkFeatures(_)

\* A faulty walker: it does not look below a node that has geometry.
RECURSIVE WalkFeaturesStopAtGeometry(_)
WalkFeaturesStopAtGeometry(list) ==
    IF list = <<>> THEN [items |-> <<>>, raised |-> FALSE]
    ELSE LET f == Head(list)
             rest == WalkFeaturesStopAtGeometry(Tail(list))
         IN  IF f.geometry # NoGeometry
             THEN [items |-> <<f>> \o rest.items, raised |-> rest.raised]
             ELSE LET sub == iter_placemarks(f)
                  IN  IF sub.raised THEN sub
                      ELSE [items |-> sub.items \o rest.items, raised |-> rest.raised]

\* A faulty walker: it yields a node after the nodes below it.
RECURSIVE WalkFeaturesChildrenFirst(_)
WalkFeaturesChildrenFirst(list) ==
    IF list = <<>> THEN [items |-> <<>>, raised |-> FALSE]
    ELSE LET f == Head(list)
             own == IF f.geometry # NoGeometry THEN <<f>> ELSE <<>>
             sub == iter_placemarks(f)
         IN  IF sub.raised THEN sub
             ELSE LET rest == WalkFeaturesChildrenFirst(Tail(list))
                  IN  [items |-> sub.items \o own \o rest.items, raised |-> rest.raised]

\* for f in iter_features(container): yield f if it has geometry, then
\* yield from iter_placemarks(f).
WalkFeatures(list) ==
    IF list = <<>> THEN [items |-> <<>>, raised |-> FALSE]
    ELSE LET f == Head(list)
             own == IF f.geometry # NoGeometry THEN <<f>> ELSE <<>>
             sub == iter_placemarks(f)
         IN  IF sub.raised THEN [items |-> own \o sub.items, raised |-> TRUE]
             ELSE LET rest == WalkFeatures(Tail(list))
                  IN  [items |-> own \o sub.items \o rest.items, raised |-> rest.raised]
iter_placemarks(container) ==
    LET fs == iter_features(container)
    IN  IF fs.raised THEN [items |-> <<>>, raised |-> TRUE] ELSE WalkFeatures(fs.list)

(***************************************************************************)
(* Container trees for the walker.  A tree has the root container (node 0, *)
(* the document: no geometry) and up to MaxNodes nodes numbered 1..n in    *)
(* document order (depth-first, a node before its descendants), given by   *)
(*   parent    parent[i] < i, the node i hangs under; i + 1 hangs under i  *)
(*             or under one of the nodes i hangs under                     *)
(*   geometry  geometry[i], a geometry or NoGeometry                       *)
(*   kind      kind[i], how node i enumerates its children (kind[0] is     *)
(*             held in root)                                               *)
(* A node's name is its number.  All containers of a tree enumerate the    *)
(* same healthy way (a method, or a list attribute) but for at most one,   *)
(* which can be of any kind.                                               *)
(***************************************************************************)
MaxNodes == 4

FeatureKinds ==
    {"absent", "callable", "callable_raises", "iterable", "not_iterable", "iter_raises"}
Enumerates(kind) == kind \in {"callable", "iterable"}

WalkLine == [type |-> "LineString", coords |-> <<(<<0, 0>>), <<1, 1>>>>]

\* The nodes i hangs under, the root included.
RECURSIVE Ancestors(_, _)
Ancestors(parent, i) ==
    IF i = 0 THEN {} ELSE {parent[i]} \cup Ancestors(parent, parent[i])

ParentVectors(n) ==
    {p \in [1..n -> 0..(n - 1)] :
        /\ \A i \in 1..n : p[i] < i
        /\ \A i \in 1..(n - 1) : p[i + 1] \in {i} \cup Ancestors(p, i)}

KindVectors(n) ==
    {[i \in 0..n |-> IF i = odd THEN k ELSE healthy] :
        healthy \in {"callable", "iterable"}, odd \in 0..n, k \in FeatureKinds}

WalkTrees ==
    UNION {[parent : ParentVectors(n),
            geometry : [1..n -> {NoGeometry, WalkLine}],
            kind : KindVectors(n)] : n \in 0..MaxNodes}

\* The sequence of the elements of a set of numbers, ascending.
RECURSIVE Ascending(_)
Ascending(S) ==
    IF S = {} THEN <<>>
    ELSE LET m == CHOOSE x \in S : \A y \in S : x <= y
         IN  <<m>> \o Ascending(S \ {m})

\* The container object of node i of tree t.
RECURSIVE Container(_, _)
Container(t, i) ==
    LET kids == Ascending({j \in DOMAIN t.parent : t.parent[j] = i})
    IN  Node(ToString(i),
             IF i = 0 THEN NoGeometry ELSE t.geometry[i],
             t.kind[i],
             [k \in DOMAIN kids |-> Container(t, kids[k])])

InitWalk ==
    /\ input \in {[fn |-> "iter_placemarks", tree |-> t] : t \in WalkTrees}
    /\ output = NotCalled
    /\ ImportIdle

\* list(iter_placemarks(container)): the generator run to its end, or to
\* the exception that leaves it.
WalkPlacemarks ==
    /\ input.fn = "iter_placemarks"
    /\ ~output.done
    /\ output' = Returned(iter_placemarks(Container(input.tree, 0)))
    /\ UNCHANGED <<input, importVars>>

NextWalk == WalkPlacemarks

SpecWalk == InitWalk /\ [][NextWalk]_vars

(***************************************************************************)
(* 4.3 Geometry normalizer.                                                *)
(***************************************************************************)
\* A faulty normalizer: a polygon is reduced to its shell.
RECURSIVE PolygonishShells(_)
PolygonishShells(g) ==
    IF IsPolygon(g) THEN <<Polygon(g.exterior, <<>>)>>
    ELSE IF HasGeoms(g)
    THEN Flatten([i \in DOMAIN g.geoms |-> PolygonishShells(g.geoms[i])])
    ELSE <<>>

\* A faulty normalizer: it looks one level deep only.
PolygonishShallow(g) ==
    IF IsPolygon(g) THEN <<g>>
    ELSE IF HasGeoms(g) THEN SelectSeq(g.geoms, IsPolygon)
    ELSE <<>>

\* polygonish_geoms(g), as the list of what it yields.
RECURSIVE polygonish_geoms(_)
polygonish_geoms(g) ==
    IF IsPolygon(g) THEN <<g>>
    ELSE IF IsMultiPolygon(g)
    THEN Flatten([i \in DOMAIN g.geoms |-> polygonish_geoms(g.geoms[i])])
    ELSE IF HasGeoms(g)
    THEN Flatten([i \in DOMAIN g.geoms |-> polygonish_geoms(g.geoms[i])])
    ELSE <<>>

\* bool(geometry): a geometry is true unless it is empty.
RECURSIVE IsEmpty(_)
IsEmpty(g) ==
    IF IsPolygon(g) THEN g.exterior = <<>>
    ELSE IF HasGeoms(g) THEN \A i \in DOMAIN g.geoms : IsEmpty(g.geoms[i])
    ELSE g.coords = <<>>

\* not geom: None, or an empty geometry.
Falsy(g) == g = NoGeometry \/ IsEmpty(g)

\* mapping(poly): the GeoJSON shape of a polygon, its rings as nested arrays.
GeoJson(poly) == [type |-> "Polygon", coordinates |-> <<poly.exterior>> \o poly.interiors]

(***************************************************************************)
(* 4.5 Raw XML fallback parser.  What ElementTree reads from the bytes:    *)
(*   parse       "ok": ET.fromstring(data) succeeds; "ok_decoded": it      *)
(*               raises ParseError and the decoded string parses; "fail":  *)
(*               both raise; "raises": the first call raises something     *)
(*               that is not a ParseError (pyexpat's ValueError for a      *)
(*               declared multi-byte encoding, LookupError for an unknown  *)
(*               one), which line 86 does not catch                        *)
(*   placemarks  the kml:Placemark elements in document order, each with   *)
(*     name      AbsentEl (no kml:name child), None (a name element with   *)
(*               no text) or the text                                      *)
(*     polygons  the kml:Polygon descendants, each with                    *)
(*       outer   [present, text]: the outer boundary's coordinates element *)
(*       holes   the texts of the inner boundaries' coordinates elements   *)
(* A text is a sequence of characters; <<>> stands for no text at all.     *)
(***************************************************************************)
AbsentEl == "<absent>"
Placeholder == "Unnamed paddock"

IsBlank(text) == \A i \in DOMAIN text : text[i] \in Whitespace

\* What the installed shapely makes of a hole that has no coordinates at
\* all.  "raises": the ring constructor has nothing to unpack and the
\* exception leaves Polygon(...) (the 1.x line).  "kept": LinearRing([]) is
\* the empty ring, GEOS takes it as a hole and skips it when it tests
\* validity (the 2.x line).  The repository pins no version.
ShapelyBuilds == {"raises", "kept"}

\* shapely's Polygon(shell, holes): a ring of one to three coordinates
\* raises ValueError; no coordinates at all give the empty polygon.
ShapelyPolygon(outer, holes, build) ==
    [raised |-> \/ Len(outer) \in 1..3
                \/ \E i \in DOMAIN holes : Len(holes[i]) \in 1..3
                \/ build = "raises" /\ \E i \in DOMAIN holes : holes[i] = <<>>,
     poly |-> Polygon(outer, holes)]

\* poly.is_valid, of a polygon that shapely constructed: the rings that have
\* coordinates are tested.
is_valid(poly) ==
    IsValid(Polygon(poly.exterior, SelectSeq(poly.interiors, LAMBDA h : h # <<>>)))

\* A faulty handler: a polygon that cannot be built ends the extraction.
KeepPolygonOrStop(made, name, pm, rest) ==
    IF made.raised THEN <<>>
    ELSE IF is_valid(made.poly) /\ ~IsEmpty(made.poly)
    THEN <<[name |-> name, poly |-> made.poly, pm |-> pm]>> \o rest
    ELSE rest

\* The polygons of one kml:Polygon element list, each tagged with pm, the
\* index of its placemark (history, for the properties).
\* Lines 105-110: made is the outcome of Polygon(outer, holes), rest the
\* results of the elements that follow.
KeepPolygon(made, name, pm, rest) ==
    IF made.raised THEN rest
    ELSE IF is_valid(made.poly) /\ ~IsEmpty(made.poly)
    THEN <<[name |-> name, poly |-> made.poly, pm |-> pm]>> \o rest
    ELSE rest

\* Lines 100-104: the rings of one kml:Polygon element.
HoleRings(texts) == [i \in DOMAIN texts |-> _parse_coordinates(texts[i])]
MakePolygon(el, build) ==
    ShapelyPolygon(_parse_coordinates(el.outer.text),
                   HoleRings(SelectSeq(el.holes, LAMBDA t : ~IsBlank(t))), build)

RECURSIVE ExtractPolygons(_, _, _, _)
ExtractPolygons(els, name, pm, build) ==
    IF els = <<>> THEN <<>>
    ELSE IF ~Head(els).outer.present \/ IsBlank(Head(els).outer.text)
    THEN ExtractPolygons(Tail(els), name, pm, build)
    ELSE KeepPolygon(MakePolygon(Head(els), build), name, pm,
                     ExtractPolygons(Tail(els), name, pm, build))

RECURSIVE ExtractPlacemarks(_, _, _)
ExtractPlacemarks(pms, k, build) ==
    IF k > Len(pms) THEN <<>>
    ELSE LET name == IF pms[k].name # AbsentEl THEN pms[k].name ELSE Placeholder
         IN  ExtractPolygons(pms[k].polygons, name, k, build)
                 \o ExtractPlacemarks(pms, k + 1, build)

\* xml_fallback_extract_polygons(data), with the history tag pm.
ExtractTagged(xml, build) ==
    IF xml.parse = "fail" THEN <<>> ELSE ExtractPlacemarks(xml.placemarks, 1, build)

\* The list of (name, polygon) pairs, without the tags.
Untagged(tagged) == [i \in DOMAIN tagged |-> <<tagged[i].name, tagged[i].poly>>]

\* Lines 84-90: the exception of ET.fromstring(data) leaves the function.
ParseRaises(xml) == xml.parse = "raises"

\* xml_fallback_extract_polygons(data), where it returns.
xml_fallback_extract_polygons(xml, build) == Untagged(ExtractTagged(xml, build))

(***************************************************************************)
(* The paddocks table and the session.  A row is a Paddock: name, area_ha  *)
(* and polygon_geojson; by is history, the request that committed the row  *)
(* (0: a row that was there before).  Paddock.name is unique.              *)
(***************************************************************************)
Paddock(name, area_ha, gj) == [name |-> name, area_ha |-> area_ha, polygon_geojson |-> gj]
Row(p, r) == [name |-> p.name, area_ha |-> p.area_ha,
              polygon_geojson |-> p.polygon_geojson, by |-> r]
Names(rows) == {row.name : row \in rows}

\* The flush of a commit violates the unique index on paddocks.name.
IntegrityError(pending, table) ==
    \/ \E i \in DOMAIN pending : pending[i].name \in Names(table)
    \/ \E i, j \in DOMAIN pending : i < j /\ pending[i].name = pending[j].name

\* A faulty commit without a transaction: every row up to the first one that
\* violates the index stays in the table.
RECURSIVE InsertUntilConflict(_, _, _)
InsertUntilConflict(pending, table, r) ==
    IF pending = <<>> \/ Head(pending).name \in Names(table) THEN table
    ELSE InsertUntilConflict(Tail(pending), table \cup {Row(Head(pending), r)}, r)

\* session.commit(): the table afterwards.  All pending rows are inserted in
\* one transaction, which is rolled back as a whole on an IntegrityError.
Committed(pending, table, r) ==
    IF IntegrityError(pending, table) THEN table
    ELSE table \cup {Row(pending[i], r) : i \in DOMAIN pending}

(***************************************************************************)
(* import_kml: the primary path (lines 127-153).                           *)
(***************************************************************************)
Lower(c) ==
    CASE c = "K" -> "k" [] c = "M" -> "m" [] c = "L" -> "l"
      [] c = "A" -> "a" [] c = "B" -> "b" [] OTHER -> c
EndsWith(str, suffix) ==
    /\ Len(str) >= Len(suffix)
    /\ SubSeq(str, Len(str) - Len(suffix) + 1, Len(str)) = suffix
\* A faulty check: the suffix is compared as written.
FilenameAcceptedExact(filename) == EndsWith(filename, <<".", "k", "m", "l">>)

\* file.filename.lower().endswith(".kml")
FilenameAccepted(filename) ==
    EndsWith([i \in DOMAIN filename |-> Lower(filename[i])], <<".", "k", "m", "l">>)

NoXml == [parse |-> "unread", placemarks |-> <<>>]
InitLocals ==
    [imported |-> 0, total_placemarks |-> 0, polygon_placemarks |-> 0,
     non_polygon_placemarks |-> 0, geom_type_counts |-> <<>>, xml |-> NoXml]

\* geom_type_counts[t] = geom_type_counts.get(t, 0) + 1
Counted(counts, t) ==
    [x \in DOMAIN counts \cup {t} |->
        IF x = t THEN (IF t \in DOMAIN counts THEN counts[t] + 1 ELSE 1) ELSE counts[x]]

\* placemark.name or "Unnamed paddock"
DisplayName(name) == IF name \in {None, ""} THEN Placeholder ELSE name

\* f"{name}{suffix}" with suffix = f" {idx+1}" if len(polys) > 1 else ""
PrimaryName(name, idx, n) ==
    IF n > 1 THEN name \o " " \o ToString(idx + 1) ELSE name

\* The accumulator of a loop: the locals, the rows added to the session and,
\* as history, for each added row its placemark (pm), its 0-based index
\* among the polygons of that placemark (idx), their number (of), the
\* placemark's name (base) and its polygon.
NoAdds == [loc |-> InitLocals, adds |-> <<>>, prov |-> <<>>]

\* A faulty inner loop: imported counts placemarks, not polygons.
RECURSIVE EmitPolysCountOnce(_, _, _, _, _, _)
EmitPolysCountOnce(acc, name, polys, idx, raises, pm) ==
    IF idx >= Len(polys) THEN acc
    ELSE LET poly == polys[idx + 1]
             row == Paddock(PrimaryName(name, idx, Len(polys)),
                            AreaHa(poly, raises), GeoJson(poly))
         IN  EmitPolysCountOnce(
                 [acc EXCEPT !.adds = Append(@, row),
                             !.prov = Append(@, [pm |-> pm, idx |-> idx, of |-> Len(polys),
                                                 base |-> name, poly |-> poly,
                                                 path |-> "primary"]),
                             !.loc.imported = IF idx = 0 THEN @ + 1 ELSE @],
                 name, polys, idx + 1, raises, pm)

\* for idx, poly in enumerate(polys): ... session.add(Paddock(...)); imported += 1
RECURSIVE EmitPolys(_, _, _, _, _, _)
EmitPolys(acc, name, polys, idx, raises, pm) ==
    IF idx >= Len(polys) THEN acc
    ELSE LET poly == polys[idx + 1]
             row == Paddock(PrimaryName(name, idx, Len(polys)),
                            AreaHa(poly, raises), GeoJson(poly))
         IN  EmitPolys(
                 [acc EXCEPT !.adds = Append(@, row),
                             !.prov = Append(@, [pm |-> pm, idx |-> idx, of |-> Len(polys),
                                                 base |-> name, poly |-> poly,
                                                 path |-> "primary"]),
                             !.loc.imported = @ + 1],
                 name, polys, idx + 1, raises, pm)

\* for placemark in iter_placemarks(doc): ...
RECURSIVE PrimaryLoop(_, _, _, _)
PrimaryLoop(items, k, acc, raises) ==
    IF k > Len(items) THEN acc
    ELSE LET geom == items[k].geometry
         IN  IF Falsy(geom) THEN PrimaryLoop(items, k + 1, acc, raises)
             ELSE LET seen == [acc EXCEPT
                                  !.loc.total_placemarks = @ + 1,
                                  !.loc.geom_type_counts = Counted(@, geom.type)]
                      name == DisplayName(items[k].name)
                      polys == polygonish_geoms(geom)
                  IN  IF polys = <<>>
                      THEN PrimaryLoop(items, k + 1,
                               [seen EXCEPT !.loc.non_polygon_placemarks = @ + 1], raises)
                      ELSE PrimaryLoop(items, k + 1,
                               EmitPolys([seen EXCEPT !.loc.polygon_placemarks = @ + 1],
                                         name, polys, 0, raises, k),
                               raises)

(***************************************************************************)
(* import_kml: the fallback path (lines 158-172).                          *)
(***************************************************************************)
\* A faulty condition: the fallback also runs after a single import.
FallbackNeededAtMostOne(imported) == imported <= 1

\* if imported == 0:
FallbackNeeded(imported) == imported = 0

\* nm or f"Paddock {idx+1}"
FallbackName(nm, idx) == IF nm \in {None, ""} THEN "Paddock " \o ToString(idx + 1) ELSE nm

\* for idx, (nm, poly) in enumerate(xml_polys): session.add(Paddock(...))
FallbackAdds(tagged, raises) ==
    LET of(m) == Cardinality({j \in DOMAIN tagged : tagged[j].pm = m})
        before(i) == Cardinality({j \in 1..(i - 1) : tagged[j].pm = tagged[i].pm})
    IN  [adds |-> [i \in DOMAIN tagged |->
                     Paddock(FallbackName(tagged[i].name, i - 1),
                             AreaHa(tagged[i].poly, raises), GeoJson(tagged[i].poly))],
         prov |-> [i \in DOMAIN tagged |->
                     [pm |-> tagged[i].pm, idx |-> before(i), of |-> of(tagged[i].pm),
                      base |-> tagged[i].name, poly |-> tagged[i].poly,
                      path |-> "fallback"]]]

\* Lines 165-172: the counts of the summary after the fallback.
FallbackCounts(l, xml_polys) ==
    LET imported == Len(xml_polys)
        total == IF l.xml.parse = "ok" THEN Len(l.xml.placemarks) ELSE l.total_placemarks
    IN  [l EXCEPT !.imported = imported,
                  !.total_placemarks = total,
                  !.polygon_placemarks = imported,
                  !.non_polygon_placemarks = Max(total - imported, 0),
                  !.geom_type_counts = [t \in {"Polygon"} |-> imported]]

\* The returned summary.
Summary(l) ==
    [imported |-> l.imported, placemarks |-> l.total_placemarks,
     polygon_placemarks |-> l.polygon_placemarks,
     non_polygon_placemarks |-> l.non_polygon_placemarks,
     geom_types |-> l.geom_type_counts]

NoSummary == [imported |-> -1]
Http(status, detail, body) == [status |-> status, detail |-> detail, body |-> body]
NoResponse == Http(0, "", NoSummary)

(***************************************************************************)
(* The uploads of the model.                                               *)
(***************************************************************************)
MaxFeatures == 2
MaxXmlElements == 4

Filenames ==
    { <<"a", ".", "k", "m", "l">>, <<"B", ".", "K", "M", "L">>,
      <<"a", ".", "t", "x", "t">>, <<"k", "m", "l">> }

Square == Rect(0, 0, 6, 6, TRUE)
P1 == Polygon(Square, <<>>)
P2 == Polygon(Rect(0, 0, 6, 6, FALSE), <<Rect(1, 1, 2, 2, FALSE)>>)
Line == LineString(<<(<<0, 0>>), <<2, 0>>, <<2, 2>>>>)

DocGeometries ==
    {P1, MultiPolygon(<<P1, P2>>), Line, GeometryCollection(<<Line, P2>>),
     Polygon(<<>>, <<>>)}
DocNames == {None, "A", "B"}
DocPlacemarks == {Placemark(n, g) : n \in DocNames, g \in DocGeometries}
ImportDocs ==
    {Document(fs) : fs \in SeqsUpTo(DocPlacemarks, MaxFeatures)}
        \cup {Document(<<Folder(<<pm>>)>>) : pm \in DocPlacemarks}

\* What kml.KML().from_string(data) makes of the bytes: it raises, or it
\* builds a document.
KmlReadings(docs) ==
    {[ok |-> FALSE, doc |-> Document(<<>>)]} \cup {[ok |-> TRUE, doc |-> d] : d \in docs}

DigitChar(n) == <<"0", "1", "2", "3", "4", "5", "6", "7", "8", "9">>[n + 1]
\* The coordinates text "lon,lat lon,lat ..." of a ring of one-digit points.
TextOf(ring) == JoinWords([i \in DOMAIN ring |-> <<DigitChar(ring[i][1]), ",", DigitChar(ring[i][2])>>])

PolygonEl(outer, holes) == [outer |-> [present |-> TRUE, text |-> outer], holes |-> holes]
\* The raw XML of the model: up to MaxXmlElements Placemark and Polygon
\* elements in document order, a Polygon belonging to the Placemark before
\* it.  A polygon is an open square with a hole (which the parser closes),
\* or a ring of two points (which cannot be built).
XmlPolygons ==
    { PolygonEl(TextOf(SubSeq(Square, 1, 4)), <<TextOf(Rect(1, 1, 2, 2, FALSE))>>),
      PolygonEl(TextOf(<<(<<0, 0>>), <<1, 1>>>>), <<>>) }
XmlNames == {AbsentEl, None, "A"}
XmlElements ==
    {[tag |-> "Placemark", name |-> n, el |-> PolygonEl(<<>>, <<>>)] : n \in XmlNames}
        \cup {[tag |-> "Polygon", name |-> AbsentEl, el |-> e] : e \in XmlPolygons}
RECURSIVE PlacemarksOf(_, _)
PlacemarksOf(els, pms) ==
    IF els = <<>> THEN pms
    ELSE IF Head(els).tag = "Placemark"
    THEN PlacemarksOf(Tail(els), Append(pms, [name |-> Head(els).name, polygons |-> <<>>]))
    ELSE PlacemarksOf(Tail(els), [pms EXCEPT ![Len(pms)].polygons = Append(@, Head(els).el)])
XmlStreams ==
    {els \in SeqsUpTo(XmlElements, MaxXmlElements) :
        els = <<>> \/ els[1].tag = "Placemark"}
ImportXmls ==
    {[parse |-> k, placemarks |-> <<>>] : k \in {"fail", "raises"}}
        \cup {[parse |-> k, placemarks |-> PlacemarksOf(els, <<>>)] :
                k \in {"ok", "ok_decoded"}, els \in XmlStreams}

ExistingRows == {Row(Paddock("A", 36, GeoJson(P1)), 0)}

(***************************************************************************)
(* import_kml, one action per stretch of code between two awaits.          *)
(* hist[r] is history: parsed ("no", "ok", "fail": what from_string did),  *)
(* walked (the primary loop ran to its end), primary (the locals when it   *)
(* ended), fallbackRan, xml_polys (what the fallback extracted), added     *)
(* (every row handed to session.add, in order) and prov (for each of them, *)
(* where it comes from).                                                   *)
(***************************************************************************)
NoHistory ==
    [parsed |-> "no", walked |-> FALSE, primary |-> InitLocals, fallbackRan |-> FALSE,
     xml_polys |-> <<>>, added |-> <<>>, prov |-> <<>>]

InitImport(rs) ==
    /\ store \in SUBSET ExistingRows
    /\ pc = [r \in rs |-> "idle"]
    /\ req = [r \in rs |-> [filename |-> <<>>]]
    /\ loc = [r \in rs |-> InitLocals]
    /\ session = [r \in rs |-> <<>>]
    /\ hist = [r \in rs |-> NoHistory]
    /\ resp = [r \in rs |-> NoResponse]
    /\ FnIdle

\* HTTPException(status_code=400, ...): the request ends; the session is
\* closed without a commit.
Reject(r, detail) ==
    /\ pc' = [pc EXCEPT ![r] = "done"]
    /\ resp' = [resp EXCEPT ![r] = Http(400, detail, NoSummary)]
    /\ session' = [session EXCEPT ![r] = <<>>]

\* An exception nobody catches: HTTP 500; the session is closed without a
\* commit.
Crash(r) ==
    /\ pc' = [pc EXCEPT ![r] = "done"]
    /\ resp' = [resp EXCEPT ![r] = Http(500, "Internal Server Error", NoSummary)]
    /\ session' = [session EXCEPT ![r] = <<>>]

\* return {...}
Return(r, l) ==
    /\ pc' = [pc EXCEPT ![r] = "done"]
    /\ resp' = [resp EXCEPT ![r] = Http(200, "", Summary(l))]
    /\ session' = [session EXCEPT ![r] = <<>>]

\* Lines 117-118: the filename check.
Receive(r, filenames) ==
    /\ r \in DOMAIN pc
    /\ pc[r] = "idle"
    /\ \E f \in filenames :
        /\ req' = [req EXCEPT ![r] = [filename |-> f]]
        /\ IF FilenameAccepted(f)
           THEN /\ pc' = [pc EXCEPT ![r] = "read"]
                /\ UNCHANGED <<resp, session>>
           ELSE Reject(r, "Only .kml files allowed")
    /\ UNCHANGED <<store, loc, hist, fnVars>>

\* A faulty handler of the parse error: it is swallowed and the import
\* goes on with an empty document.
ParseFailedSwallowed(r, e) ==
    /\ pc' = [pc EXCEPT ![r] = "commit1"]
    /\ hist' = [hist EXCEPT ![r].parsed = "fail"]
    /\ UNCHANGED <<resp, session, loc>>

\* What the parser's exception says.
ParserMessages == {"syntax error", "no element found"}

\* Lines 122-125: from_string raised e.
ParseFailed(r, e) ==
    /\ Reject(r, "Invalid KML: " \o e)
    /\ hist' = [hist EXCEPT ![r].parsed = "fail"]
    /\ UNCHANGED loc

\* Lines 127-153: the loop over walk, the placemarks iter_placemarks yields;
\* acc is what the loop has done when it ends or the walk raises.
Walked(r, walk, acc) ==
    /\ hist' = [hist EXCEPT ![r].parsed = "ok", ![r].walked = ~walk.raised,
                            ![r].primary = acc.loc,
                            ![r].added = acc.adds, ![r].prov = acc.prov]
    /\ IF walk.raised
       THEN Crash(r) /\ UNCHANGED loc
       ELSE /\ loc' = [loc EXCEPT ![r] = acc.loc]
            /\ session' = [session EXCEPT ![r] = acc.adds]
            /\ pc' = [pc EXCEPT ![r] = "commit1"]
            /\ UNCHANGED resp

\* Lines 120-153: read, parse, walk; up to the first commit.
ParseAndWalk(r, docs) ==
    /\ r \in DOMAIN pc
    /\ pc[r] = "read"
    /\ \E k \in KmlReadings(docs), raises \in BOOLEAN :
        IF ~k.ok THEN \E e \in ParserMessages : ParseFailed(r, e)
        ELSE \E walk \in {iter_placemarks(k.doc)} :
                Walked(r, walk, PrimaryLoop(walk.items, 1, NoAdds, raises))
    /\ UNCHANGED <<store, req, fnVars>>

\* Line 155: await session.commit(), and the test of line 158.
Commit1(r) ==
    /\ r \in DOMAIN pc
    /\ pc[r] = "commit1"
    /\ store' = Committed(session[r], store, r)
    /\ IF IntegrityError(session[r], store) THEN Crash(r)
       ELSE IF FallbackNeeded(loc[r].imported)
       THEN /\ pc' = [pc EXCEPT ![r] = "fallback"]
            /\ session' = [session EXCEPT ![r] = <<>>]
            /\ UNCHANGED resp
       ELSE Return(r, loc[r])
    /\ UNCHANGED <<req, loc, hist, fnVars>>

\* Lines 159-163: the raw-XML fallback, up to the second commit.
Fallback(r, xmls) ==
    /\ r \in DOMAIN pc
    /\ pc[r] = "fallback"
    /\ \E x \in xmls, raises \in BOOLEAN, build \in ShapelyBuilds :
        /\ loc' = [loc EXCEPT ![r].xml = x]
        /\ IF ParseRaises(x)
           THEN /\ hist' = [hist EXCEPT ![r].fallbackRan = TRUE]
                /\ Crash(r)
           ELSE \E xml_polys \in {ExtractTagged(x, build)} :
                \E fa \in {FallbackAdds(xml_polys, raises)} :
                    /\ session' = [session EXCEPT ![r] = @ \o fa.adds]
                    /\ hist' = [hist EXCEPT ![r].fallbackRan = TRUE,
                                            ![r].xml_polys = Untagged(xml_polys),
                                            ![r].added = @ \o fa.adds,
                                            ![r].prov = @ \o fa.prov]
                    /\ pc' = [pc EXCEPT ![r] = "commit2"]
                    /\ UNCHANGED resp
    /\ UNCHANGED <<store, req, fnVars>>

\* Lines 164-172 and the return: the second commit and the recount.
Commit2(r) ==
    /\ r \in DOMAIN pc
    /\ pc[r] = "commit2"
    /\ store' = Committed(session[r], store, r)
    /\ IF IntegrityError(session[r], store) THEN Crash(r) /\ UNCHANGED loc
       ELSE LET l == FallbackCounts(loc[r], hist[r].xml_polys)
            IN  loc' = [loc EXCEPT ![r] = l] /\ Return(r, l)
    /\ UNCHANGED <<req, hist, fnVars>>

Next ==
    \E r \in {1} :
        \/ Receive(r, Filenames)
        \/ ParseAndWalk(r, ImportDocs)
        \/ Commit1(r)
        \/ Fallback(r, ImportXmls)
        \/ Commit2(r)

Init == InitImport({1})

Spec == Init /\ [][Next]_vars

(***************************************************************************)
(* Concurrent imports: MaxRuns requests against the one table, their steps *)
(* interleaved at the awaits.  Every state of store is what a reader of    *)
(* the table can see.                                                      *)
(***************************************************************************)
MaxRuns == 2

ConcFilenames == { <<"a", ".", "k", "m", "l">> }
ConcDocs ==
    { Document(<<Placemark("A", P1)>>),
      Document(<<Placemark("B", MultiPolygon(<<P1, P2>>)), Placemark("A", P1)>>),
      Document(<<Placemark("B", P1), Placemark("B", P2)>>),
      Document(<<Placemark("A", Line)>>) }
SquareEl == PolygonEl(TextOf(SubSeq(Square, 1, 4)), <<>>)
ConcXmls ==
    {[parse |-> "ok", placemarks |-> pms] :
        pms \in { <<[name |-> "A", polygons |-> <<SquareEl>>]>>,
                  <<[name |-> "A", polygons |-> <<SquareEl, SquareEl>>]>>,
                  <<[name |-> AbsentEl, polygons |-> <<SquareEl>>],
                    [name |-> "B", polygons |-> <<SquareEl>>]>> }}

InitConc == InitImport(1..MaxRuns)

NextConc ==
    \E r \in 1..MaxRuns :
        \/ Receive(r, ConcFilenames)
        \/ ParseAndWalk(r, ConcDocs)
        \/ Commit1(r)
        \/ Fallback(r, ConcXmls)
        \/ Commit2(r)

SpecConc == InitConc /\ [][NextConc]_vars

(***************************************************************************)
(* The area engine alone, or an import: the runs of either.                *)
(***************************************************************************)
SpecAreaOrImport == (InitArea \/ Init) /\ [][NextArea \/ Next]_vars

\* The walker on its own, or an import.
SpecWalkOrImport == (InitWalk \/ Init) /\ [][NextWalk \/ Next]_vars

(***************************************************************************)
(* The normalizer on its own: geometries nested up to MaxNesting deep.  A  *)
(* collection holds one member of the level below, alone or beside a leaf. *)
(***************************************************************************)
MaxNesting == 2

NormLeaves == {P1, P2, Line, Point(0, 0), Polygon(<<>>, <<>>)}

Nest(inner) ==
    inner
        \cup {GeometryCollection(<<a>>) : a \in inner}
        \cup {GeometryCollection(<<a, l>>) : a \in inner, l \in NormLeaves}
        \cup {GeometryCollection(<<l, a>>) : a \in inner, l \in NormLeaves}

RECURSIVE NestedGeometries(_)
NestedGeometries(d) ==
    IF d = 0
    THEN NormLeaves \cup {MultiPolygon(ps) : ps \in SeqsUpTo({P1, P2}, 2)}
              \cup {GeometryCollection(<<>>)}
    ELSE Nest(NestedGeometries(d - 1))

InitGeoms ==
    /\ input \in [fn : {"polygonish_geoms"}, geometry : NestedGeometries(MaxNesting)]
    /\ output = NotCalled
    /\ ImportIdle

\* list(polygonish_geoms(g))
Normalize ==
    /\ input.fn = "polygonish_geoms"
    /\ ~output.done
    /\ output' = Returned(polygonish_geoms(input.geometry))
    /\ UNCHANGED <<input, importVars>>

NextGeoms == Normalize

SpecGeoms == InitGeoms /\ [][NextGeoms]_vars

(***************************************************************************)
(* The raw XML parser on its own: one placemark with up to MaxXmlPolygons  *)
(* kml:Polygon elements.  An outer boundary is an open square, an open     *)
(* triangle (three points, four once closed), two points, one point said   *)
(* four times, a text with no tuple in it, or missing; an inner boundary   *)
(* is an open square inside the shell, two points, a text with no tuple in *)
(* it, or blank.                                                           *)
(***************************************************************************)
MaxXmlPolygons == 2

OpenSquare == TextOf(SubSeq(Square, 1, 4))
OpenTriangle == TextOf(<<(<<0, 0>>), <<6, 0>>, <<0, 6>>>>)
TwoPoints == TextOf(<<(<<1, 1>>), <<2, 2>>>>)
SamePoint == TextOf(<<(<<0, 0>>), <<0, 0>>, <<0, 0>>, <<0, 0>>>>)
NoTuple == <<"x">>
OpenHole == TextOf(SubSeq(Rect(1, 1, 2, 2, FALSE), 1, 4))

RingOuters ==
    {[present |-> TRUE, text |-> t] :
        t \in {OpenSquare, OpenTriangle, TwoPoints, SamePoint, NoTuple}}
        \cup {[present |-> FALSE, text |-> <<>>]}
RingHoles ==
    SeqsUpTo({OpenHole, TwoPoints, NoTuple, <<" ">>}, 1) \cup {<<OpenHole, NoTuple>>}
RingPolygons == {[outer |-> o, holes |-> hs] : o \in RingOuters, hs \in RingHoles}
\* The polygons els in one placemark, or split over two after the k-th.
RingPlacemarks(els, k) ==
    IF k = Len(els) THEN <<[name |-> "A", polygons |-> els]>>
    ELSE <<[name |-> "A", polygons |-> SubSeq(els, 1, k)],
           [name |-> "B", polygons |-> SubSeq(els, k + 1, Len(els))]>>
RingSplits ==
    {t \in [els : SeqsUpTo(RingPolygons, MaxXmlPolygons), k : 0..MaxXmlPolygons] :
        t.k <= Len(t.els)}
RingXmls ==
    {[parse |-> "ok", placemarks |-> RingPlacemarks(t.els, t.k)] : t \in RingSplits}
        \cup {[parse |-> p, placemarks |-> <<[name |-> "A", polygons |-> <<>>]>>] :
                p \in {"fail", "raises"}}

InitXml ==
    /\ input \in [fn : {"xml_fallback_extract_polygons"}, xml : RingXmls,
                  build : ShapelyBuilds]
    /\ output = NotCalled
    /\ ImportIdle

\* xml_fallback_extract_polygons(data)
ExtractXml ==
    /\ input.fn = "xml_fallback_extract_polygons"
    /\ ~output.done
    /\ output' = IF ParseRaises(input.xml) THEN Thrown
                  ELSE Returned(xml_fallback_extract_polygons(input.xml, input.build))
    /\ UNCHANGED <<input, importVars>>

NextXml == ExtractXml

SpecXml == InitXml /\ [][NextXml]_vars

SpecXmlOrImport == (InitXml \/ Init) /\ [][NextXml \/ Next]_vars

(***************************************************************************)
(* The mobs and movements API (backend/app/api/v1/routes_mobs.py,          *)
(* routes_movements.py).  The database db has                              *)
(*   paddocks   the ids of the paddocks table                              *)
(*   mobs       the mobs table, a mob's id being its index: count and      *)
(*              paddock_id (Null: NULL)                                    *)
(*   allocs     the rows of mob_field_allocations: mob_id, paddock_id      *)
(*   movements  the rows of movements: mob_id, from_paddock_id,            *)
(*              to_paddock_id                                              *)
(* A handler is an operator from the database and the request to the       *)
(* status of the response and the database after it; a request that raises *)
(* leaves the database as it was (the session is closed without a commit). *)
(* The default database is SQLite, which does not enforce foreign keys.    *)
(***************************************************************************)
Null == -1

MobRow(count, paddock_id) == [count |-> count, paddock_id |-> paddock_id]
Allocation(mob_id, paddock_id) == [mob_id |-> mob_id, paddock_id |-> paddock_id]
Movement(mob_id, from, to) ==
    [mob_id |-> mob_id, from_paddock_id |-> from, to_paddock_id |-> to]

Answer(status, db) == [status |-> status, db |-> db]

\* A faulty _dedupe_paddock_ids: ids that are not positive are kept.
RECURSIVE DedupeKeepingAll(_, _)
DedupeKeepingAll(raw, out) ==
    IF raw = <<>> THEN out
    ELSE IF Head(raw) \in Range(out) THEN DedupeKeepingAll(Tail(raw), out)
    ELSE DedupeKeepingAll(Tail(raw), Append(out, Head(raw)))

\* _dedupe_paddock_ids(raw): out is the list so far (seen is its range).
RECURSIVE Dedupe(_, _)
Dedupe(raw, out) ==
    IF raw = <<>> THEN out
    ELSE IF Head(raw) <= 0 \/ Head(raw) \in Range(out) THEN Dedupe(Tail(raw), out)
    ELSE Dedupe(Tail(raw), Append(out, Head(raw)))
_dedupe_paddock_ids(raw) == Dedupe(raw, <<>>)

\* _validate_paddocks_exist raises 404: some id is not in the table.
PaddocksMissing(db, paddock_ids) ==
    SelectSeq(paddock_ids, LAMBDA pid : pid \notin db.paddocks) # <<>>

\* The paddock ids of the allocation rows of a mob.
AllocatedTo(db, mob_id) ==
    {db.allocs[i].paddock_id : i \in {j \in DOMAIN db.allocs : db.allocs[j].mob_id = mob_id}}

\* create_mob(data)
create_mob(db, data) ==
    IF data.paddock_id # Null /\ data.paddock_id \notin db.paddocks
    THEN Answer(404, db)
    ELSE LET id == Len(db.mobs) + 1
             placed == data.paddock_id # Null
         IN  Answer(200,
                [db EXCEPT
                    !.mobs = Append(@, MobRow(data.count, data.paddock_id)),
                    !.allocs = IF placed THEN Append(@, Allocation(id, data.paddock_id))
                               ELSE @,
                    !.movements = IF placed THEN Append(@, Movement(id, Null, data.paddock_id))
                                  ELSE @])

\* update_mob(mob_id, data): data.fields are the fields the payload sets.
update_mob(db, mob_id, data) ==
    IF mob_id \notin DOMAIN db.mobs THEN Answer(404, db)
    ELSE IF "paddock_id" \notin data.fields
    THEN Answer(200,
            [db EXCEPT !.mobs[mob_id].count =
                            IF "count" \in data.fields THEN data.count ELSE @])
    ELSE IF data.paddock_id # Null /\ data.paddock_id \notin db.paddocks
    THEN Answer(404, db)
    ELSE LET previous_primary == db.mobs[mob_id].paddock_id
             target == data.paddock_id
             others == SelectSeq(db.allocs, LAMBDA a : a.mob_id # mob_id)
         IN  Answer(200,
                [db EXCEPT
                    !.mobs[mob_id].count = IF "count" \in data.fields THEN data.count ELSE @,
                    !.mobs[mob_id].paddock_id = target,
                    !.allocs = IF target # Null
                               THEN Append(others, Allocation(mob_id, target))
                               ELSE others,
                    !.movements = IF target # Null /\ previous_primary # target
                                  THEN Append(@, Movement(mob_id, previous_primary, target))
                                  ELSE @])

\* A faulty set_mob_paddocks: every requested paddock is added again.
SetPaddocksAddingAll(db, mob_id, data) ==
    IF mob_id \notin DOMAIN db.mobs THEN Answer(404, db)
    ELSE LET paddock_ids == _dedupe_paddock_ids(data.paddock_ids)
         IN  IF PaddocksMissing(db, paddock_ids) THEN Answer(404, db)
             ELSE Answer(200,
                    [db EXCEPT
                        !.mobs[mob_id].paddock_id =
                            IF paddock_ids # <<>> THEN paddock_ids[1] ELSE Null,
                        !.allocs =
                            SelectSeq(@, LAMBDA a : ~(a.mob_id = mob_id
                                                      /\ a.paddock_id \notin Range(paddock_ids)))
                                \o [i \in DOMAIN paddock_ids |->
                                        Allocation(mob_id, paddock_ids[i])],
                        !.movements =
                            @ \o [i \in DOMAIN paddock_ids |->
                                    Movement(mob_id, db.mobs[mob_id].paddock_id,
                                             paddock_ids[i])]])

\* set_mob_paddocks(mob_id, data)
set_mob_paddocks(db, mob_id, data) ==
    IF mob_id \notin DOMAIN db.mobs THEN Answer(404, db)
    ELSE LET paddock_ids == _dedupe_paddock_ids(data.paddock_ids)
             existing_ids == AllocatedTo(db, mob_id)
             remove_ids == existing_ids \ Range(paddock_ids)
             add_ids == SelectSeq(paddock_ids, LAMBDA pid : pid \notin existing_ids)
         IN  IF PaddocksMissing(db, paddock_ids) THEN Answer(404, db)
             ELSE Answer(200,
                    [db EXCEPT
                        !.mobs[mob_id].paddock_id =
                            IF paddock_ids # <<>> THEN paddock_ids[1] ELSE Null,
                        !.allocs =
                            SelectSeq(@, LAMBDA a : ~(a.mob_id = mob_id
                                                      /\ a.paddock_id \in remove_ids))
                                \o [i \in DOMAIN add_ids |-> Allocation(mob_id, add_ids[i])],
                        !.movements =
                            @ \o [i \in DOMAIN add_ids |->
                                    Movement(mob_id, db.mobs[mob_id].paddock_id, add_ids[i])]])

\* A faulty create_movement: the movement is committed before the target
\* paddock is looked up.
CreateMovementEarly(db, data) ==
    IF data.mob_id \notin DOMAIN db.mobs THEN Answer(404, db)
    ELSE IF data.to_paddock_id \notin db.paddocks
    THEN Answer(404,
            [db EXCEPT !.movements = Append(@, Movement(data.mob_id, data.from_paddock_id,
                                                        data.to_paddock_id))])
    ELSE Answer(200,
            [db EXCEPT
                !.mobs[data.mob_id].paddock_id = data.to_paddock_id,
                !.movements = Append(@, Movement(data.mob_id, data.from_paddock_id,
                                                 data.to_paddock_id))])

\* create_movement(data): the Movement added at line 17 is pending until the
\* commit of line 27, and is discarded with the session when a 404 is raised.
create_movement(db, data) ==
    IF data.mob_id \notin DOMAIN db.mobs THEN Answer(404, db)
    ELSE IF data.to_paddock_id \notin db.paddocks THEN Answer(404, db)
    ELSE Answer(200,
            [db EXCEPT
                !.mobs[data.mob_id].paddock_id = data.to_paddock_id,
                !.movements = Append(@, Movement(data.mob_id, data.from_paddock_id,
                                                 data.to_paddock_id))])

\* Lines 223-240: the checks that need no database.  0: passed.
RECURSIVE PartsStatus(_, _)
PartsStatus(parts, seen) ==
    IF parts = <<>> THEN 0
    ELSE IF Head(parts).mob_id \in seen THEN 400
    ELSE IF Head(parts).count <= 0 THEN 400
    ELSE PartsStatus(Tail(parts), seen \cup {Head(parts).mob_id})
RequestStatus(data) ==
    IF IsBlank(data.name) THEN 400
    ELSE IF data.parts = <<>> THEN 400
    ELSE PartsStatus(data.parts, {})

\* Lines 246-256: the sources are loaded and checked in turn.  0: passed.
RECURSIVE SourcesStatus(_, _)
SourcesStatus(mobs, parts) ==
    IF parts = <<>> THEN 0
    ELSE IF Head(parts).mob_id \notin DOMAIN mobs THEN 404
    ELSE IF mobs[Head(parts).mob_id].count < Head(parts).count THEN 400
    ELSE SourcesStatus(mobs, Tail(parts))

\* Lines 255-256: the paddocks of the sources, each once, in order.
RECURSIVE SourcePaddocks(_, _, _)
SourcePaddocks(mobs, parts, paddock_ids) ==
    IF parts = <<>> THEN paddock_ids
    ELSE LET pid == mobs[Head(parts).mob_id].paddock_id
         IN  SourcePaddocks(mobs, Tail(parts),
                IF pid # Null /\ pid \notin Range(paddock_ids)
                THEN Append(paddock_ids, pid) ELSE paddock_ids)

\* Faulty line 274: what a source keeps is not what it had less its part.
RECURSIVE TakeWhole(_, _)
TakeWhole(mobs, parts) ==
    IF parts = <<>> THEN mobs
    ELSE TakeWhole([mobs EXCEPT ![Head(parts).mob_id].count = 0], Tail(parts))

\* Line 274: source.count = max(source.count - count, 0), from the counts
\* in mobs (the objects of the session).
RECURSIVE TakeParts(_, _)
TakeParts(mobs, parts) ==
    IF parts = <<>> THEN mobs
    ELSE TakeParts([mobs EXCEPT ![Head(parts).mob_id].count =
                                    Max(@ - Head(parts).count, 0)],
                   Tail(parts))

\* Lines 273-281: a Movement per source, from its paddock to its paddock.
SourceMovements(mobs, parts) ==
    [i \in DOMAIN parts |->
        Movement(parts[i].mob_id, mobs[parts[i].mob_id].paddock_id,
                 mobs[parts[i].mob_id].paddock_id)]

\* movements.to_paddock_id is NOT NULL (models.py line 30): the commit raises
\* IntegrityError for a Movement to no paddock.
NotNullViolated(movements) ==
    \E i \in DOMAIN movements : movements[i].to_paddock_id = Null

\* create_mob_from_existing(data)
create_mob_from_existing(db, data) ==
    IF RequestStatus(data) # 0 THEN Answer(RequestStatus(data), db)
    ELSE IF SourcesStatus(db.mobs, data.parts) # 0
    THEN Answer(SourcesStatus(db.mobs, data.parts), db)
    ELSE LET paddock_ids == SourcePaddocks(db.mobs, data.parts, <<>>)
             total_count == SumSeq([i \in DOMAIN data.parts |-> data.parts[i].count])
             new_primary_paddock == IF Len(paddock_ids) = 1 THEN paddock_ids[1] ELSE Null
             id == Len(db.mobs) + 1
             moved == SourceMovements(db.mobs, data.parts)
         IN  IF NotNullViolated(moved) THEN Answer(400, db)
             ELSE Answer(200,
                    [db EXCEPT
                        !.mobs = Append(TakeParts(@, data.parts),
                                        MobRow(total_count, new_primary_paddock)),
                        !.movements = @ \o moved,
                        !.allocs = @ \o [i \in DOMAIN paddock_ids |->
                                            Allocation(id, paddock_ids[i])]])

(***************************************************************************)
(* The requests of the model, served one after the other: store is the     *)
(* database, req the last request, resp its response, hist.served the     *)
(* number of requests served (at most MaxRequests) and hist.repeat whether *)
(* the last request repeated the successful request before it.  Paddocks  *)
(* 1 and 2 exist, paddock 3 and mob 9 do not.                              *)
(***************************************************************************)
MaxRequests == 3

InitialDbs ==
    { [paddocks |-> {1, 2},
       mobs |-> <<MobRow(3, 1), MobRow(2, Null)>>,
       allocs |-> <<Allocation(1, 1)>>,
       movements |-> <<>>],
      [paddocks |-> {1, 2},
       mobs |-> <<MobRow(3, 1), MobRow(2, 2)>>,
       allocs |-> <<Allocation(1, 1), Allocation(1, 2), Allocation(2, 2)>>,
       movements |-> <<Movement(2, Null, 2)>>],
      [paddocks |-> {1, 2},
       mobs |-> <<MobRow(0, 2), MobRow(2, 1)>>,
       allocs |-> <<Allocation(1, 2), Allocation(2, 1)>>,
       movements |-> <<Movement(1, Null, 2), Movement(2, Null, 1)>>] }

CreateRequests == [count : {2}, paddock_id : {Null, 1, 3}]
UpdateRequests ==
    { [mob_id |-> 1, fields |-> {"count"}, count |-> 5, paddock_id |-> Null],
      [mob_id |-> 1, fields |-> {"paddock_id"}, count |-> 5, paddock_id |-> Null],
      [mob_id |-> 1, fields |-> {"paddock_id"}, count |-> 5, paddock_id |-> 2],
      [mob_id |-> 1, fields |-> {"count", "paddock_id"}, count |-> 5, paddock_id |-> 3],
      [mob_id |-> 9, fields |-> {"count"}, count |-> 5, paddock_id |-> Null] }
PaddockLists == {<<>>, <<2>>, <<1, 2>>, <<2, 1, 2>>, <<0, 2>>, <<3>>, <<2, 3>>}
SetRequests ==
    [mob_id : {1}, paddock_ids : PaddockLists] \cup [mob_id : {9}, paddock_ids : {<<2>>}]
MovementRequests == [mob_id : {1, 9}, from_paddock_id : {Null}, to_paddock_id : {2, 3}]
SplitParts ==
    {[mob_id |-> 1, count |-> 1], [mob_id |-> 1, count |-> 4], [mob_id |-> 1, count |-> 0],
     [mob_id |-> 2, count |-> 2], [mob_id |-> 9, count |-> 1]}
SplitRequests ==
    [name : {<<"N">>}, parts : SeqsUpTo(SplitParts, 2)]
        \cup [name : {<<" ">>}, parts : {<<[mob_id |-> 1, count |-> 1]>>}]

InitMobs ==
    /\ store \in InitialDbs
    /\ req = [op |-> "none"]
    /\ resp = [status |-> 0]
    /\ hist = [repeat |-> FALSE, served |-> 0]
    /\ pc = <<>> /\ loc = <<>> /\ session = <<>>
    /\ FnIdle

\* The request q is served with the answer a.
Served(q, a) ==
    /\ store' = a.db
    /\ req' = q
    /\ resp' = [status |-> a.status]
    /\ hist' = [repeat |-> resp.status = 200 /\ req.op = q.op /\ req = q,
                served |-> hist.served + 1]
    /\ UNCHANGED <<pc, loc, session, fnVars>>

CreateMob ==
    /\ hist.served < MaxRequests
    /\ \E data \in CreateRequests :
            Served([op |-> "create_mob", data |-> data], create_mob(store, data))
UpdateMob ==
    /\ hist.served < MaxRequests
    /\ \E data \in UpdateRequests :
            Served([op |-> "update_mob", data |-> data], update_mob(store, data.mob_id, data))
SetMobPaddocks ==
    /\ hist.served < MaxRequests
    /\ \E data \in SetRequests :
            Served([op |-> "set_mob_paddocks", data |-> data],
                   set_mob_paddocks(store, data.mob_id, data))
CreateMovement ==
    /\ hist.served < MaxRequests
    /\ \E data \in MovementRequests :
            Served([op |-> "create_movement", data |-> data], create_movement(store, data))
CreateMobFromExisting ==
    /\ hist.served < MaxRequests
    /\ \E data \in SplitRequests :
            Served([op |-> "create_mob_from_existing", data |-> data],
                   create_mob_from_existing(store, data))

NextMobs ==
    \/ CreateMob
    \/ UpdateMob
    \/ SetMobPaddocks
    \/ CreateMovement
    \/ CreateMobFromExisting

SpecMobs == InitMobs /\ [][NextMobs]_vars

(***************************************************************************)
(* Concurrent create_mob_from_existing requests, each with its own         *)
(* session, their steps interleaved at the awaits.  loc[r].sources are the *)
(* Mob objects request r has loaded (line 247): they keep the count they   *)
(* were read with.  The flush of line 271 opens the write transaction,     *)
(* which SQLite gives to one connection at a time, until the commit of     *)
(* line 287 writes the counts of the session's objects.                    *)
(***************************************************************************)
MaxSplits == 2

SplitDb ==
    [paddocks |-> {1, 2},
     mobs |-> <<MobRow(3, 1), MobRow(2, 2)>>,
     allocs |-> <<Allocation(1, 1), Allocation(2, 2)>>,
     movements |-> <<>>]
ConcSplitRequests ==
    [name : {<<"N">>},
     parts : { <<[mob_id |-> 1, count |-> 2]>>, <<[mob_id |-> 1, count |-> 3]>>,
               <<[mob_id |-> 2, count |-> 1], [mob_id |-> 1, count |-> 1]>>,
               <<[mob_id |-> 1, count |-> 4]>>, <<>> }]

InitSplits ==
    /\ store = SplitDb
    /\ pc = [r \in 1..MaxSplits |-> "begin"]
    /\ req \in [1..MaxSplits -> ConcSplitRequests]
    /\ loc = [r \in 1..MaxSplits |-> [sources |-> <<>>]]
    /\ session = [r \in 1..MaxSplits |-> <<>>]
    /\ hist = [r \in 1..MaxSplits |-> [id |-> 0]]
    /\ resp = [r \in 1..MaxSplits |-> [status |-> 0]]
    /\ FnIdle

\* HTTPException: the request ends and its session is closed.
Refuse(r, status) ==
    /\ pc' = [pc EXCEPT ![r] = "done"]
    /\ resp' = [resp EXCEPT ![r] = [status |-> status]]

\* Lines 223-240.
SplitBegin(r) ==
    /\ pc[r] = "begin"
    /\ IF RequestStatus(req[r]) # 0
       THEN Refuse(r, RequestStatus(req[r]))
       ELSE pc' = [pc EXCEPT ![r] = "load"] /\ UNCHANGED resp
    /\ UNCHANGED <<store, req, loc, session, hist, fnVars>>

\* Lines 246-256, one turn of the loop: the source is read as it is
\* committed now.
SplitLoad(r) ==
    /\ pc[r] = "load"
    /\ LET part == req[r].parts[Len(loc[r].sources) + 1]
       IN  IF SourcesStatus(store.mobs, <<part>>) # 0
           THEN Refuse(r, SourcesStatus(store.mobs, <<part>>)) /\ UNCHANGED loc
           ELSE /\ loc' = [loc EXCEPT ![r].sources = Append(@, store.mobs[part.mob_id])]
                /\ pc' = [pc EXCEPT ![r] =
                            IF Len(loc[r].sources) + 1 = Len(req[r].parts)
                            THEN "flush" ELSE "load"]
                /\ UNCHANGED resp
    /\ UNCHANGED <<store, req, session, hist, fnVars>>

\* Lines 258-271: the new mob is flushed; the request waits while another
\* one holds the write transaction.
SplitFlush(r) ==
    /\ pc[r] = "flush"
    /\ \A other \in DOMAIN pc : pc[other] # "commit"
    /\ pc' = [pc EXCEPT ![r] = "commit"]
    /\ hist' = [hist EXCEPT ![r].id = Len(store.mobs) + 1]
    /\ UNCHANGED <<store, req, loc, session, resp, fnVars>>

\* The wait for the write transaction times out (sqlite3's busy timeout):
\* OperationalError, HTTP 500.
SplitLocked(r) ==
    /\ pc[r] = "flush"
    /\ \E other \in DOMAIN pc : pc[other] = "commit"
    /\ Refuse(r, 500)
    /\ UNCHANGED <<store, req, loc, session, hist, fnVars>>

\* Lines 273-274 at the commit: the count of each source as the session
\* holds it, less its part.
SplitWrites(db, data, sources) ==
    [m \in DOMAIN db.mobs |->
        IF \E i \in DOMAIN data.parts : data.parts[i].mob_id = m
        THEN LET i == CHOOSE i \in DOMAIN data.parts : data.parts[i].mob_id = m
             IN  [db.mobs[m] EXCEPT !.count = Max(sources[i].count - data.parts[i].count, 0)]
        ELSE db.mobs[m]]

\* Lines 273-293.  The paddocks of the sources are those they were loaded
\* with, which no request of this model changes.
SplitCommit(r) ==
    /\ pc[r] = "commit"
    /\ LET data == req[r]
           paddock_ids == SourcePaddocks(store.mobs, data.parts, <<>>)
           total_count == SumSeq([i \in DOMAIN data.parts |-> data.parts[i].count])
           moved == SourceMovements(store.mobs, data.parts)
       IN  IF NotNullViolated(moved)
           THEN Refuse(r, 400) /\ UNCHANGED store
           ELSE /\ store' =
                    [store EXCEPT
                        !.mobs = Append(SplitWrites(store, data, loc[r].sources),
                                        MobRow(total_count,
                                               IF Len(paddock_ids) = 1 THEN paddock_ids[1]
                                               ELSE Null)),
                        !.movements = @ \o moved,
                        !.allocs = @ \o [i \in DOMAIN paddock_ids |->
                                            Allocation(hist[r].id, paddock_ids[i])]]
                /\ Refuse(r, 200)
    /\ UNCHANGED <<req, loc, session, hist, fnVars>>

NextSplits ==
    \E r \in 1..MaxSplits :
        \/ SplitBegin(r)
        \/ SplitLoad(r)
        \/ SplitFlush(r)
        \/ SplitLocked(r)
        \/ SplitCommit(r)

SpecSplits == InitSplits /\ [][NextSplits]_vars

(***************************************************************************)
(* The CORS configuration (backend/app/main.py).  CORS_ORIGINS is a text   *)
(* of up to MaxCorsChars characters of CorsChars: enough to write a JSON   *)
(* array of strings, a comma-separated list, a wildcard, a trailing slash  *)
(* and surrounding blanks.                                                 *)
(***************************************************************************)
MaxCorsChars == 5
CorsChars == {"[", "]", "\"", ",", "*", "a", "/", " "}

\* str.strip()
RECURSIVE LStrip(_)
LStrip(text) ==
    IF text # <<>> /\ Head(text) \in Whitespace THEN LStrip(Tail(text)) ELSE text
RECURSIVE RStrip(_)
RStrip(text) ==
    IF text # <<>> /\ Last(text) \in Whitespace
    THEN RStrip(SubSeq(text, 1, Len(text) - 1)) ELSE text
Strip(text) == RStrip(LStrip(text))

\* str.rstrip('/')
RECURSIVE RStripSlash(_)
RStripSlash(text) ==
    IF text # <<>> /\ Last(text) = "/"
    THEN RStripSlash(SubSeq(text, 1, Len(text) - 1)) ELSE text

\* json.loads over these characters: a value is a string (no escapes) or an
\* array of values; blanks may surround any value; anything else, and text
\* after the value, raises.
JsonFail == [ok |-> FALSE, val |-> <<>>, next |-> 0]
JsonOk(val, next) == [ok |-> TRUE, val |-> val, next |-> next]
JsonStr(text) == [kind |-> "str", text |-> text, items |-> <<>>]
JsonList(items) == [kind |-> "list", text |-> <<>>, items |-> items]

RECURSIVE SkipWs(_, _)
SkipWs(s, i) ==
    IF i <= Len(s) /\ s[i] \in Whitespace THEN SkipWs(s, i + 1) ELSE i

\* The position of the first quote at or after i; 0 when there is none.
RECURSIVE ClosingQuote(_, _)
ClosingQuote(s, i) ==
    IF i > Len(s) THEN 0
    ELSE IF s[i] = "\"" THEN i ELSE ClosingQuote(s, i + 1)

RECURSIVE ParseValue(_, _)
RECURSIVE ParseItems(_, _, _)
ParseValue(s, i) ==
    LET b == SkipWs(s, i)
    IN  IF b > Len(s) THEN JsonFail
        ELSE IF s[b] = "\""
        THEN LET e == ClosingQuote(s, b + 1)
             IN  IF e = 0 THEN JsonFail
                 ELSE JsonOk(JsonStr(SubSeq(s, b + 1, e - 1)), e + 1)
        ELSE IF s[b] = "["
        THEN LET c == SkipWs(s, b + 1)
             IN  IF c <= Len(s) /\ s[c] = "]" THEN JsonOk(JsonList(<<>>), c + 1)
                 ELSE ParseItems(s, c, <<>>)
        ELSE JsonFail
ParseItems(s, i, items) ==
    LET v == ParseValue(s, i)
    IN  IF ~v.ok THEN JsonFail
        ELSE LET e == SkipWs(s, v.next)
             IN  IF e > Len(s) THEN JsonFail
                 ELSE IF s[e] = "," THEN ParseItems(s, e + 1, Append(items, v.val))
                 ELSE IF s[e] = "]" THEN JsonOk(JsonList(Append(items, v.val)), e + 1)
                 ELSE JsonFail

json_loads(s) ==
    LET v == ParseValue(s, 1)
    IN  IF v.ok /\ SkipWs(s, v.next) > Len(s) THEN v ELSE JsonFail

\* repr(x) and str(x) of a parsed value: a string in single quotes, a list in
\* brackets with its members' reprs joined by ", ".
RECURSIVE Repr(_)
RECURSIVE JoinReprs(_)
Repr(x) ==
    IF x.kind = "str" THEN <<"'">> \o x.text \o <<"'">>
    ELSE <<"[">> \o JoinReprs(x.items) \o <<"]">>
JoinReprs(items) ==
    IF items = <<>> THEN <<>>
    ELSE IF Len(items) = 1 THEN Repr(items[1])
    ELSE Repr(Head(items)) \o <<",", " ">> \o JoinReprs(Tail(items))
Str(x) == IF x.kind = "str" THEN x.text ELSE Repr(x)

LocalhostOrigin ==
    <<"h", "t", "t", "p", ":", "/", "/", "l", "o", "c", "a", "l", "h", "o", "s", "t",
      ":", "5", "1", "7", "3">>
LoopbackOrigin ==
    <<"h", "t", "t", "p", ":", "/", "/", "1", "2", "7", ".", "0", ".", "0", ".", "1",
      ":", "5", "1", "7", "3">>
Wildcard == <<"*">>
AllowAllRegex == ".*"

CorsResult(allow_origins, allow_origin_regex, allow_credentials) ==
    [allow_origins |-> allow_origins, allow_origin_regex |-> allow_origin_regex,
     allow_credentials |-> allow_credentials]

\* [str(x).rstrip('/') for x in data if str(x).strip()]
RECURSIVE ListOrigins(_)
ListOrigins(items) ==
    IF items = <<>> THEN <<>>
    ELSE (IF IsBlank(Str(Head(items))) THEN <<>>
          ELSE <<RStripSlash(Str(Head(items)))>>) \o ListOrigins(Tail(items))

\* [p.strip().rstrip('/') for p in raw.split(',') if p.strip()]
RECURSIVE PartOrigins(_)
PartOrigins(pieces) ==
    IF pieces = <<>> THEN <<>>
    ELSE (IF IsBlank(Head(pieces)) THEN <<>>
          ELSE <<RStripSlash(Strip(Head(pieces)))>>) \o PartOrigins(Tail(pieces))

\* The JSON branch of parse_cors, data being a list.
JsonOrigins(items) == CorsResult(ListOrigins(items), None, TRUE)

parse_cors(origins_raw) ==
    LET raw == Strip(origins_raw)
        data == json_loads(raw)
        parts == PartOrigins(SplitComma(raw, <<>>))
    IN  IF raw = <<>>
        THEN CorsResult(<<LocalhostOrigin, LoopbackOrigin>>, None, TRUE)
        ELSE IF data.ok /\ data.val.kind = "list" THEN JsonOrigins(data.val.items)
        ELSE IF Wildcard \in Range(parts) THEN CorsResult(<<>>, AllowAllRegex, FALSE)
        ELSE CorsResult(parts, None, TRUE)

InitCors ==
    /\ input \in [fn : {"parse_cors"}, origins_raw : SeqsUpTo(CorsChars, MaxCorsChars)]
    /\ output = NotCalled
    /\ ImportIdle

\* allow_origins, allow_origin_regex, allow_credentials = parse_cors(...)
ParseCors ==
    /\ input.fn = "parse_cors"
    /\ ~output.done
    /\ output' = Returned(parse_cors(input.origins_raw))
    /\ UNCHANGED <<input, importVars>>

NextCors == ParseCors

SpecCors == InitCors /\ [][NextCors]_vars

(***************************************************************************)
(* What the properties speak of.                                           *)
(***************************************************************************)
Requests == DOMAIN pc
Mine(r) == {row \in store : row.by = r}
Done(r) == pc[r] = "done"
Succeeded(r) == pc[r] = "done" /\ resp[r].status = 200
AddedRows(r) == {Row(hist[r].added[i], r) : i \in DOMAIN hist[r].added}
\* The placemarks that yielded at least one polygon.
Yielding(r) == {hist[r].prov[i].pm : i \in DOMAIN hist[r].prov}
\* The placemarks the run visited.
Visited(r) ==
    IF hist[r].fallbackRan THEN Len(loc[r].xml.placemarks)
    ELSE hist[r].primary.total_placemarks

(***************************************************************************)
(* C1: in every run whose structured parse succeeds, the raw-XML fallback  *)
(* runs if and only if the primary path emitted no parcel; when it runs,   *)
(* the parcels handed to the session are exactly the polygons it           *)
(* extracted, in order, and once the summary is returned the rows          *)
(* persisted are those parcels and imported is their number; when the      *)
(* primary path emitted a parcel the fallback does not run and the summary *)
(* holds the primary path's own counts.                                    *)
(***************************************************************************)
C1_FallbackIffNoPrimary ==
    \A r \in Requests :
        hist[r].parsed = "ok" =>
            /\ hist[r].fallbackRan => hist[r].primary.imported = 0
            /\ (Done(r) /\ hist[r].walked /\ hist[r].primary.imported = 0)
                    => hist[r].fallbackRan
            /\ hist[r].fallbackRan =>
                    [i \in DOMAIN hist[r].added |-> hist[r].added[i].polygon_geojson]
                      = [i \in DOMAIN hist[r].xml_polys |-> GeoJson(hist[r].xml_polys[i][2])]
            /\ (Succeeded(r) /\ hist[r].fallbackRan) =>
                    /\ resp[r].body.imported = Len(hist[r].xml_polys)
                    /\ Mine(r) = AddedRows(r)
                    /\ Cardinality(Mine(r)) = Len(hist[r].xml_polys)
            /\ (Succeeded(r) /\ hist[r].primary.imported >= 1) =>
                    /\ ~hist[r].fallbackRan
                    /\ resp[r].body = Summary(hist[r].primary)

\* A summary returned after the fallback extracted polygons.
C1_Witness ==
    \E r \in Requests :
        Succeeded(r) /\ hist[r].fallbackRan /\ Len(hist[r].xml_polys) >= 1

(***************************************************************************)
(* C2: when the structured parser cannot parse the bytes, the run ends     *)
(* with HTTP 400 'Invalid KML': the fallback never runs, no summary is     *)
(* produced and no parcel is added or committed.                           *)
(***************************************************************************)
C2_MalformedAborts ==
    \A r \in Requests :
        hist[r].parsed = "fail" =>
            /\ Done(r)
            /\ \E e \in ParserMessages :
                    resp[r] = Http(400, "Invalid KML: " \o e, NoSummary)
            /\ ~hist[r].fallbackRan
            /\ hist[r].added = <<>>
            /\ session[r] = <<>>
            /\ Mine(r) = {}

\* A run that ended on the parse error.
C2_Witness == \E r \in Requests : hist[r].parsed = "fail" /\ Done(r)

(***************************************************************************)
(* C3: only the malformed-document error leaves the pipeline: every run    *)
(* whose structured parse succeeded ends by returning a summary.           *)
(***************************************************************************)
C3_OnlyMalformedIsFatal ==
    \A r \in Requests : (Done(r) /\ hist[r].parsed = "ok") => resp[r].status = 200

(***************************************************************************)
(* C4: an import is atomic for every reader of the table, also when        *)
(* imports run concurrently: the table holds none of a run's parcels or    *)
(* all of them (and then the run has returned its summary), and a run that *)
(* fails leaves none.                                                      *)
(***************************************************************************)
C4_ImportAtomic ==
    \A r \in Requests :
        /\ Mine(r) = {} \/ (Mine(r) = AddedRows(r) /\ Succeeded(r))
        /\ (Done(r) /\ resp[r].status # 200) => Mine(r) = {}

\* One run has failed after adding rows, another has committed two rows.
C4_Witness ==
    \E r1, r2 \in Requests :
        /\ r1 # r2
        /\ Cardinality(Mine(r1)) >= 2
        /\ Done(r2) /\ resp[r2].status = 500 /\ hist[r2].added # <<>>

(***************************************************************************)
(* C5: a placemark that decomposes into N > 1 polygons emits its i-th      *)
(* polygon (0-based) under its name followed by a space and i+1, and one   *)
(* that gives a single polygon emits it under its name unchanged, on the   *)
(* primary path and on the fallback path.                                  *)
(***************************************************************************)
C5_SuffixNaming ==
    \A r \in Requests :
        \A i \in DOMAIN hist[r].added :
            LET p == hist[r].prov[i]
            IN  p.base \notin {None, ""} =>
                    hist[r].added[i].name =
                        IF p.of > 1 THEN p.base \o " " \o ToString(p.idx + 1) ELSE p.base

(***************************************************************************)
(* C6: in every returned summary polygon_placemarks is the number of       *)
(* visited placemarks that yielded a polygon and non_polygon_placemarks    *)
(* the number that yielded none, so that placemarks is their sum and       *)
(* polygon_placemarks is at most placemarks.                               *)
(***************************************************************************)
C6_PlacemarkCounts ==
    \A r \in Requests :
        Succeeded(r) =>
            LET b == resp[r].body
            IN  /\ b.polygon_placemarks = Cardinality(Yielding(r))
                /\ b.non_polygon_placemarks = Visited(r) - Cardinality(Yielding(r))
                /\ b.placemarks = b.polygon_placemarks + b.non_polygon_placemarks
                /\ b.polygon_placemarks <= b.placemarks

(***************************************************************************)
(* C7: in every returned summary imported is the number of rows handed to  *)
(* session.add during the run, on either path.                             *)
(***************************************************************************)
C7_ImportedCountsAdds ==
    \A r \in Requests : Succeeded(r) => resp[r].body.imported = Len(hist[r].added)

\* A summary after a placemark was emitted as two parcels.
C7_Witness ==
    \E r \in Requests :
        /\ Succeeded(r) /\ ~hist[r].fallbackRan
        /\ \E i \in DOMAIN hist[r].prov : hist[r].prov[i].of = 2

(***************************************************************************)
(* C8: geodesic_area_m2 returns a value >= 0 for every geometry, from the  *)
(* primary method and from the ring decomposition, so the area_ha of every *)
(* parcel added or stored is >= 0.                                         *)
(***************************************************************************)
C8_AreaNonNegative ==
    /\ output.done => output.ret >= 0
    /\ \A r \in Requests : \A i \in DOMAIN hist[r].added : hist[r].added[i].area_ha >= 0
    /\ \A row \in store : row.area_ha >= 0

\* The ring decomposition has clamped a polygon whose hole outweighs its
\* exterior to zero.
C8_Witness ==
    /\ output.done /\ input.raises
    /\ IsPolygon(input.geometry) /\ input.geometry.interiors # <<>>
    /\ input.geometry.exterior # <<>>
    /\ output.ret = 0

(***************************************************************************)
(* C9: hole monotonicity.  For every valid polygon with at least one hole, *)
(* the area computed for it is at most the area computed for the same      *)
(* polygon with any one of its holes removed.                              *)
(***************************************************************************)
C9_HoleMonotone ==
    (output.done /\ IsPolygon(input.geometry) /\ IsValid(input.geometry)) =>
        \A i \in DOMAIN input.geometry.interiors :
            output.ret <= geodesic_area_m2(WithoutHole(input.geometry, i), input.raises)

(***************************************************************************)
(* C10: closing invariant of _parse_coordinates.  Whatever the text, a     *)
(* non-empty result starts and ends with the same point; when the parsed   *)
(* points end in a point different from the first the result is the parsed *)
(* points followed by one copy of the first, and otherwise it is the       *)
(* parsed points themselves.                                               *)
(***************************************************************************)
C10_ClosingInvariant ==
    output.done =>
        LET pts == ParsedPoints(input.text)
            r == output.ret
        IN  /\ r # <<>> => r[1] = Last(r)
            /\ (pts # <<>> /\ pts[1] # Last(pts)) => r = Append(pts, pts[1])
            /\ (pts = <<>> \/ pts[1] = Last(pts)) => r = pts

\* An open ring was parsed and has been closed by one appended point.
C10_Witness ==
    /\ output.done
    /\ Len(ParsedPoints(input.text)) >= 2
    /\ ParsedPoints(input.text)[1] # Last(ParsedPoints(input.text))
    /\ Len(output.ret) = Len(ParsedPoints(input.text)) + 1

(***************************************************************************)
(* C11: normalizing a Polygon gives the one-element sequence holding that  *)
(* polygon, so normalizing every element of a normalizer output again      *)
(* gives that same output.                                                 *)
(***************************************************************************)
C11_NormalizerIdempotent ==
    (output.done /\ input.fn = "polygonish_geoms") =>
        /\ IsPolygon(input.geometry) => output.ret = <<input.geometry>>
        /\ \A i \in DOMAIN output.ret : polygonish_geoms(output.ret[i]) = <<output.ret[i]>>
        /\ Flatten([i \in DOMAIN output.ret |-> polygonish_geoms(output.ret[i])]) = output.ret

\* A polygon with a hole has been normalized.
C11_Witness ==
    /\ output.done /\ input.fn = "polygonish_geoms"
    /\ IsPolygon(input.geometry) /\ input.geometry.interiors # <<>>
    /\ output.ret = <<input.geometry>>

(***************************************************************************)
(* C12: for a document all of whose placemarks carry non-polygon geometry  *)
(* only (the raw XML holding no polygon either), the run adds and persists *)
(* no parcel and returns imported = 0 with non_polygon_placemarks equal to *)
(* the number of those placemarks, the fallback's recount notwithstanding. *)
(***************************************************************************)
C12_NonPolygonDocument ==
    \A r \in Requests :
        (/\ Succeeded(r) /\ hist[r].walked
         /\ hist[r].primary.total_placemarks >= 1
         /\ hist[r].primary.non_polygon_placemarks = hist[r].primary.total_placemarks
         /\ \A k \in DOMAIN loc[r].xml.placemarks : loc[r].xml.placemarks[k].polygons = <<>>)
        => /\ resp[r].body.imported = 0
           /\ resp[r].body.non_polygon_placemarks = hist[r].primary.total_placemarks
           /\ hist[r].added = <<>>
           /\ Mine(r) = {}

(***************************************************************************)
(* C13: every parcel added for a placemark without a name (no name, or an  *)
(* empty one) is named 'Unnamed paddock', with the index suffix where one  *)
(* applies, on the primary path and on the fallback path alike; and no     *)
(* parcel is added with an empty or null name.                             *)
(***************************************************************************)
C13_OnePlaceholder ==
    \A r \in Requests :
        \A i \in DOMAIN hist[r].added :
            LET p == hist[r].prov[i]
                nm == hist[r].added[i].name
            IN  /\ nm \notin {None, ""}
                /\ p.base \in {None, "", Placeholder} =>
                        nm \in {Placeholder, Placeholder \o " " \o ToString(p.idx + 1)}

(***************************************************************************)
(* C14: an upload whose filename does not end in '.kml', letter case       *)
(* aside, is rejected with HTTP 400 before anything is read or parsed and  *)
(* nothing of it is added or persisted; every other upload passes the      *)
(* check.                                                                  *)
(***************************************************************************)
HasKmlSuffix(f) ==
    /\ Len(f) >= 4
    /\ f[Len(f) - 3] = "."
    /\ f[Len(f) - 2] \in {"k", "K"}
    /\ f[Len(f) - 1] \in {"m", "M"}
    /\ f[Len(f)] \in {"l", "L"}

C14_FilenameGate ==
    \A r \in Requests :
        pc[r] # "idle" =>
            IF HasKmlSuffix(req[r].filename)
            THEN resp[r].detail # "Only .kml files allowed"
            ELSE /\ Done(r)
                 /\ resp[r] = Http(400, "Only .kml files allowed", NoSummary)
                 /\ hist[r] = NoHistory
                 /\ loc[r] = InitLocals
                 /\ session[r] = <<>>
                 /\ Mine(r) = {}

\* An upload named without the suffix has been rejected.
C14_Witness ==
    \E r \in Requests :
        /\ Done(r) /\ ~HasKmlSuffix(req[r].filename)
        /\ resp[r].status = 400

(***************************************************************************)
(* The walk of a tree: what was yielded, as node numbers; the nodes the    *)
(* walk can reach (every container above them enumerates its children).    *)
(***************************************************************************)
WalkDone == output.done /\ input.fn = "iter_placemarks"
TreeNodes == DOMAIN input.tree.parent
NumberOf(node) == CHOOSE i \in TreeNodes : ToString(i) = node.name
YieldedNodes == [k \in DOMAIN output.ret.items |-> NumberOf(output.ret.items[k])]
Reachable(i) == \A a \in Ancestors(input.tree.parent, i) : Enumerates(input.tree.kind[a])
HasGeometry(i) == input.tree.geometry[i] # NoGeometry

(***************************************************************************)
(* C15: for every container tree, whatever its depth, iter_placemarks      *)
(* yields every node that has geometry exactly once and no node without    *)
(* geometry, going on below a node it has yielded.                         *)
(***************************************************************************)
C15_WalkerComplete ==
    WalkDone =>
        /\ \A k \in DOMAIN YieldedNodes : HasGeometry(YieldedNodes[k])
        /\ \A k1, k2 \in DOMAIN YieldedNodes :
                YieldedNodes[k1] = YieldedNodes[k2] => k1 = k2
        /\ ~output.ret.raised =>
                Range(YieldedNodes) = {i \in TreeNodes : Reachable(i) /\ HasGeometry(i)}

\* A walk has yielded a node two levels down and a node below it.
C15_Witness ==
    /\ WalkDone /\ ~output.ret.raised
    /\ \E i, j \in TreeNodes :
        /\ input.tree.parent[j] = i /\ input.tree.parent[i] # 0
        /\ {i, j} \subseteq Range(YieldedNodes)

(***************************************************************************)
(* C16: iter_placemarks yields the nodes in depth-first pre-order: a node  *)
(* before the nodes below it, siblings in document order (the nodes being  *)
(* numbered in that order, the numbers yielded ascend).  On the primary    *)
(* path the parcels are added to the session in the order the placemarks   *)
(* were yielded, the polygons of one placemark together and in index       *)
(* order.                                                                  *)
(***************************************************************************)
C16_PreOrderEmission ==
    /\ WalkDone =>
            \A k \in 1..(Len(YieldedNodes) - 1) : YieldedNodes[k] < YieldedNodes[k + 1]
    /\ \A r \in Requests :
            LET pv == hist[r].prov
            IN  ~hist[r].fallbackRan =>
                    /\ \A i \in DOMAIN pv :
                            /\ hist[r].added[i].polygon_geojson = GeoJson(pv[i].poly)
                            /\ IF i = 1 THEN pv[i].idx = 0
                               ELSE \/ /\ pv[i].pm = pv[i - 1].pm
                                       /\ pv[i].idx = pv[i - 1].idx + 1
                                    \/ /\ pv[i].pm > pv[i - 1].pm
                                       /\ pv[i].idx = 0
                                       /\ pv[i - 1].idx = pv[i - 1].of - 1
                    /\ pv # <<>> => Last(pv).idx = Last(pv).of - 1
                    /\ pc[r] = "commit1" => session[r] = hist[r].added

\* A walk has yielded a node, a node below it and a later sibling of it.
C16_Witness ==
    /\ WalkDone
    /\ \E i, j, k \in TreeNodes :
        /\ input.tree.parent[j] = i
        /\ input.tree.parent[k] = input.tree.parent[i] /\ k > j
        /\ {i, j, k} \subseteq Range(YieldedNodes)

(***************************************************************************)
(* C17: a container without a way to enumerate its children, or whose      *)
(* enumeration throws (be it a method or an attribute that is iterated),   *)
(* counts as having no children: no exception leaves the walker, and the   *)
(* walk goes on with the container's siblings, so that every node with     *)
(* geometry below containers that do enumerate is yielded.                 *)
(***************************************************************************)
C17_EnumerationNeverThrows ==
    WalkDone =>
        /\ ~output.ret.raised
        /\ \A i \in TreeNodes : (Reachable(i) /\ HasGeometry(i)) => i \in Range(YieldedNodes)
        /\ \A i \in TreeNodes : ~Reachable(i) => i \notin Range(YieldedNodes)

(***************************************************************************)
(* The members of a geometry by position: a path is the sequence of member *)
(* indices that leads from the geometry down to a member that is not a     *)
(* collection; paths are ordered left to right.                            *)
(***************************************************************************)
RECURSIVE LeafPaths(_)
LeafPaths(g) ==
    IF HasGeoms(g)
    THEN UNION {{<<i>> \o q : q \in LeafPaths(g.geoms[i])} : i \in DOMAIN g.geoms}
    ELSE {<<>>}

RECURSIVE MemberAt(_, _)
MemberAt(g, q) == IF q = <<>> THEN g ELSE MemberAt(g.geoms[Head(q)], Tail(q))

RECURSIVE LeftOf(_, _)
LeftOf(a, b) ==
    /\ a # <<>> /\ b # <<>>
    /\ \/ Head(a) < Head(b)
       \/ Head(a) = Head(b) /\ LeftOf(Tail(a), Tail(b))

RECURSIVE LeftToRight(_)
LeftToRight(S) ==
    IF S = {} THEN <<>>
    ELSE LET first == CHOOSE a \in S : \A b \in S \ {a} : LeftOf(a, b)
         IN  <<first>> \o LeftToRight(S \ {first})

PolygonLeaves(g) ==
    LET paths == LeftToRight({q \in LeafPaths(g) : IsPolygon(MemberAt(g, q))})
    IN  [k \in DOMAIN paths |-> MemberAt(g, paths[k])]

(***************************************************************************)
(* C18: for a geometry of any type and nesting, polygonish_geoms gives a   *)
(* flat sequence of Polygons only: the Polygon leaves of the geometry from *)
(* left to right; a Polygon gives itself, and a geometry that is neither a *)
(* Polygon nor a collection gives the empty sequence.                      *)
(***************************************************************************)
C18_FlatPolygonLeaves ==
    (output.done /\ input.fn = "polygonish_geoms") =>
        /\ \A i \in DOMAIN output.ret : IsPolygon(output.ret[i])
        /\ output.ret = PolygonLeaves(input.geometry)
        /\ (~IsPolygon(input.geometry) /\ ~HasGeoms(input.geometry)) => output.ret = <<>>

\* A collection within a collection has given two polygons, a line lying
\* between them.
C18_Witness ==
    /\ output.done /\ input.fn = "polygonish_geoms"
    /\ Len(output.ret) >= 2
    /\ \E q \in LeafPaths(input.geometry) : Len(q) >= 2 /\ IsPolygon(MemberAt(input.geometry, q))
    /\ \E q \in LeafPaths(input.geometry) : MemberAt(input.geometry, q) = Line

(***************************************************************************)
(* The tokens of a text by position: a token starts at a character that is *)
(* not whitespace and follows whitespace or nothing, and runs to the last  *)
(* character before the next whitespace; its fields are cut at its commas. *)
(***************************************************************************)
TokenStarts(text) ==
    {i \in DOMAIN text :
        text[i] \notin Whitespace /\ (i = 1 \/ text[i - 1] \in Whitespace)}
TokenAt(text, i) ==
    LET end == CHOOSE j \in i..Len(text) :
                    /\ \A k \in i..j : text[k] \notin Whitespace
                    /\ j = Len(text) \/ text[j + 1] \in Whitespace
    IN  SubSeq(text, i, end)
Commas(token) == {k \in DOMAIN token : token[k] = ","}
FirstComma(token) == CHOOSE c \in Commas(token) : \A d \in Commas(token) : c <= d
\* The end of the second field: before the second comma, or the token's end.
SecondEnd(token) ==
    LET later == Commas(token) \ {FirstComma(token)}
    IN  IF later = {} THEN Len(token)
        ELSE (CHOOSE c \in later : \A d \in later : c <= d) - 1
Lon(token) == SubSeq(token, 1, FirstComma(token) - 1)
Lat(token) == SubSeq(token, FirstComma(token) + 1, SecondEnd(token))
Unsigned(field) ==
    IF field # <<>> /\ field[1] \in {"+", "-"} THEN SubSeq(field, 2, Len(field)) ELSE field
IsNumber(field) ==
    Unsigned(field) # <<>> /\ \A k \in DOMAIN Unsigned(field) : Unsigned(field)[k] \in Digits
Value(field) ==
    LET ds == Unsigned(field)
        magnitude == SumSeq([k \in DOMAIN ds |-> DigitVal(ds[k]) * 10 ^ (Len(ds) - k)])
    IN  IF field[1] = "-" THEN -magnitude ELSE magnitude
IsPair(token) == Commas(token) # {} /\ IsNumber(Lon(token)) /\ IsNumber(Lat(token))
\* The (lon, lat) pairs of the tokens that hold one, in the order of the text.
PairsOf(text) ==
    LET starts == Ascending({i \in TokenStarts(text) : IsPair(TokenAt(text, i))})
    IN  [k \in DOMAIN starts |->
            <<Value(Lon(TokenAt(text, starts[k]))), Value(Lat(TokenAt(text, starts[k])))>>]

(***************************************************************************)
(* C19: for every text, the points of _parse_coordinates before the ring   *)
(* is closed are the (lon, lat) pairs of the whitespace-separated tokens   *)
(* whose first two comma-separated fields are numbers, in the order of the *)
(* text; a third field is dropped, every other token is skipped, and the   *)
(* empty text gives no point.                                              *)
(***************************************************************************)
C19_ParsedPairs ==
    (output.done /\ input.fn = "_parse_coordinates") =>
        LET pairs == PairsOf(input.text)
        IN  /\ output.ret = IF pairs # <<>> /\ pairs[1] # Last(pairs)
                            THEN Append(pairs, pairs[1]) ELSE pairs
            /\ input.text = <<>> => output.ret = <<>>

\* A text with a token that is skipped and a token with an altitude has
\* been parsed to two different points (and closed).
C19_Witness ==
    /\ output.done /\ input.fn = "_parse_coordinates"
    /\ Len(output.ret) = 3 /\ output.ret[1] # output.ret[2]
    /\ \E i \in TokenStarts(input.text) : ~IsPair(TokenAt(input.text, i))
    /\ \E i \in TokenStarts(input.text) : Cardinality(Commas(TokenAt(input.text, i))) = 2

(***************************************************************************)
(* C20.  Every ring, the outer one and each hole, of every polygon that    *)
(* xml_fallback_extract_polygons returns has at least four points and its  *)
(* first point equal to its last.  (Refuted where shapely keeps a hole     *)
(* that has no coordinates: a non-blank inner boundary text without a      *)
(* tuple gives a polygon with a hole of no points.)                        *)
(***************************************************************************)
XmlDone == input.fn = "xml_fallback_extract_polygons" /\ output.done
RingsOf(poly) == <<poly.exterior>> \o poly.interiors
RingSound(ring) == Len(ring) >= 4 /\ ring[1] = ring[Len(ring)]

C20_RingInvariant ==
    XmlDone =>
        \A i \in DOMAIN output.ret :
            \A k \in DOMAIN RingsOf(output.ret[i][2]) :
                RingSound(RingsOf(output.ret[i][2])[k])

(***************************************************************************)
(* C21.  When the bytes cannot be parsed as XML at all,                    *)
(* xml_fallback_extract_polygons returns no results and does not raise,    *)
(* and the import still returns a summary with imported = 0.  (Refuted: an *)
(* exception of ET.fromstring that is not a ParseError leaves the function *)
(* and the import ends with HTTP 500.)                                     *)
(***************************************************************************)
Unparsable(xml) == xml.parse \in {"fail", "raises"}

C21_UnparsableGivesNothing ==
    /\ (XmlDone /\ Unparsable(input.xml)) => (~Threw(output) /\ output.ret = <<>>)
    /\ \A r \in Requests :
          (Done(r) /\ hist[r].fallbackRan /\ Unparsable(loc[r].xml)) =>
              (resp[r].status = 200 /\ resp[r].body.imported = 0)

(***************************************************************************)
(* C22.  In xml_fallback_extract_polygons a polygon that is missing its    *)
(* outer boundary, cannot be constructed, is invalid or is empty is        *)
(* dropped without raising, and the other polygons are not affected: what  *)
(* is returned is, in document order, what each polygon element gives when *)
(* it stands alone in its placemark.                                       *)
(***************************************************************************)
\* The document that holds the one polygon element el in a placemark named
\* as pm is.
Alone(pm, el) ==
    [parse |-> "ok", placemarks |-> <<[name |-> pm.name, polygons |-> <<el>>]>>]
EachAlone(xml, build) ==
    Flatten([k \in DOMAIN xml.placemarks |->
        Flatten([j \in DOMAIN xml.placemarks[k].polygons |->
            xml_fallback_extract_polygons(
                Alone(xml.placemarks[k], xml.placemarks[k].polygons[j]), build)])])
\* An element whose outer boundary can be a shell.  Every other element has
\* no outer boundary, or one of two points (three coordinates once closed:
\* not constructable), of one point said four times (invalid) or without a
\* tuple (empty).
Undroppable(el) ==
    el.outer.present /\ el.outer.text \in {OpenSquare, OpenTriangle}

C22_DroppedAlone ==
    (XmlDone /\ input.xml.parse = "ok") =>
        /\ ~Threw(output)
        /\ output.ret = EachAlone(input.xml, input.build)
        /\ \A k \in DOMAIN input.xml.placemarks :
            \A j \in DOMAIN input.xml.placemarks[k].polygons :
                LET el == input.xml.placemarks[k].polygons[j]
                    one == xml_fallback_extract_polygons(Alone(input.xml.placemarks[k], el),
                                                         input.build)
                IN  /\ Len(one) <= 1
                    /\ ~Undroppable(el) => one = <<>>

\* The first placemark's polygon cannot be built, the second's is returned.
C22_Witness ==
    /\ XmlDone
    /\ Len(input.xml.placemarks) = 2
    /\ Len(input.xml.placemarks[1].polygons) = 1
    /\ input.xml.placemarks[1].polygons[1].outer.text = TwoPoints
    /\ Len(output.ret) = 1
    /\ output.ret[1][1] = "B"

(***************************************************************************)
(* C23.  The ring decomposition runs only when the primary geodesic method *)
(* raises: when it does not, the result is the primary method's; when it   *)
(* does, the result for a Polygon is                                       *)
(* max(|area(outer ring)| - sum of |area(hole)|, 0), which is 0 when the   *)
(* holes outweigh the exterior.  The unsigned area of a ring is taken here *)
(* from its bounding box (the rings are rectangles).                       *)
(***************************************************************************)
RectArea(ring) ==
    IF ring = <<>> THEN 0
    ELSE 2 * SqMPerHa * (BBox(ring).x1 - BBox(ring).x0) * (BBox(ring).y1 - BBox(ring).y0)
HoleTotal(g) == SumSeq([i \in DOMAIN g.interiors |-> RectArea(g.interiors[i])])
AreaDone == input.fn = "geodesic_area_m2" /\ output.done

C23_RingDecomposition ==
    (AreaDone /\ IsPolygon(input.geometry)) =>
        /\ ~input.raises => output.ret = Abs(geometry_area_perimeter(input.geometry))
        /\ input.raises =>
            /\ output.ret >= 0
            /\ RectArea(input.geometry.exterior) >= HoleTotal(input.geometry)
                => output.ret = RectArea(input.geometry.exterior) - HoleTotal(input.geometry)
            /\ RectArea(input.geometry.exterior) < HoleTotal(input.geometry)
                => output.ret = 0

\* Two holes that together outweigh the small exterior: the result is 0,
\* where the primary method would have given another value.
C23_Witness ==
    /\ AreaDone /\ input.raises /\ IsPolygon(input.geometry)
    /\ input.geometry.exterior = Rect(1, 1, 2, 2, TRUE)
    /\ Len(input.geometry.interiors) = 2
    /\ output.ret = 0
    /\ Abs(geometry_area_perimeter(input.geometry)) # 0

(***************************************************************************)
(* C24.  Allocation consistency: after any sequence of create_mob,         *)
(* update_mob, set_mob_paddocks, create_movement and                       *)
(* create_mob_from_existing calls, every mob whose paddock_id is not null  *)
(* has that paddock among its allocation rows.  (Refuted: create_movement  *)
(* sets the mob's paddock_id and writes no allocation row.)                *)
(***************************************************************************)
C24_AllocationConsistent ==
    req.op \in {"none", "create_mob", "update_mob", "set_mob_paddocks", "create_movement",
                "create_mob_from_existing"} =>
        \A mob_id \in DOMAIN store.mobs :
            store.mobs[mob_id].paddock_id # Null =>
                store.mobs[mob_id].paddock_id \in AllocatedTo(store, mob_id)

(***************************************************************************)
(* C25.  Head-count conservation.  A successful create_mob_from_existing   *)
(* leaves the sum of count over all mobs unchanged: the new mob's count is *)
(* the sum of the requested part counts and each source loses exactly its  *)
(* part; it makes no count negative.  A request with a blank name, no      *)
(* parts, a duplicate source, a count that is not positive, an unknown     *)
(* source or a source without enough head is refused and changes nothing.  *)
(***************************************************************************)
TotalHead(db) == SumSeq([i \in DOMAIN db.mobs |-> db.mobs[i].count])
PartOf(data, mob_id) ==
    SumSeq([i \in DOMAIN data.parts |->
                IF data.parts[i].mob_id = mob_id THEN data.parts[i].count ELSE 0])
Refusable(db, data) ==
    \/ \A i \in DOMAIN data.name : data.name[i] \in Whitespace
    \/ data.parts = <<>>
    \/ \E i, j \in DOMAIN data.parts : i < j /\ data.parts[i].mob_id = data.parts[j].mob_id
    \/ \E i \in DOMAIN data.parts :
        \/ data.parts[i].count <= 0
        \/ data.parts[i].mob_id \notin DOMAIN db.mobs
        \/ db.mobs[data.parts[i].mob_id].count < data.parts[i].count
SplitStep == hist'.served = hist.served + 1 /\ req'.op = "create_mob_from_existing"

C25_HeadCountConserved ==
    [][SplitStep =>
        /\ resp'.status = 200 =>
            /\ TotalHead(store') = TotalHead(store)
            /\ Len(store'.mobs) = Len(store.mobs) + 1
            /\ store'.mobs[Len(store'.mobs)].count
                    = SumSeq([i \in DOMAIN req'.data.parts |-> req'.data.parts[i].count])
            /\ \A m \in DOMAIN store.mobs :
                    store'.mobs[m].count = store.mobs[m].count - PartOf(req'.data, m)
            /\ (\A m \in DOMAIN store.mobs : store.mobs[m].count >= 0)
                    => \A m \in DOMAIN store'.mobs : store'.mobs[m].count >= 0
        /\ resp'.status # 200 => store' = store
        /\ Refusable(store, req'.data) => resp'.status # 200]_vars

\* A mob made of parts of two sources, one of which gave all it had.
C25_Witness ==
    /\ req.op = "create_mob_from_existing" /\ resp.status = 200
    /\ Len(req.data.parts) = 2
    /\ store.mobs[Len(store.mobs)].count = 3
    /\ \E m \in DOMAIN store.mobs : store.mobs[m].count = 0

(***************************************************************************)
(* C26.  Under concurrent create_mob_from_existing requests that draw from *)
(* the same source mob the sum of count over all mobs stays what it was    *)
(* before the requests, in every interleaving.  (Refuted: each request     *)
(* writes the source's count from the value it read, and the later commit  *)
(* undoes the earlier one's deduction.)                                    *)
(***************************************************************************)
C26_ConcurrentConservation == TotalHead(store) = TotalHead(SplitDb)

(***************************************************************************)
(* C27.  create_movement is all-or-nothing.  When the mob or the target    *)
(* paddock does not exist it answers 404, no Movement row is persisted and *)
(* no mob's paddock_id changes; when it succeeds exactly one Movement row  *)
(* is persisted, the one requested, and the mob's paddock_id is the        *)
(* movement's to_paddock_id.                                               *)
(***************************************************************************)
MovementStep == hist'.served = hist.served + 1 /\ req'.op = "create_movement"

C27_MovementAllOrNothing ==
    [][MovementStep =>
        LET data == req'.data
            unknown == data.mob_id \notin DOMAIN store.mobs
                            \/ data.to_paddock_id \notin store.paddocks
        IN  /\ unknown => (resp'.status = 404 /\ store' = store)
            /\ ~unknown =>
                /\ resp'.status = 200
                /\ store'.movements
                        = Append(store.movements,
                                 Movement(data.mob_id, data.from_paddock_id, data.to_paddock_id))
                /\ store'.mobs[data.mob_id].paddock_id = data.to_paddock_id
                /\ \A m \in DOMAIN store.mobs \ {data.mob_id} : store'.mobs[m] = store.mobs[m]
                /\ DOMAIN store'.mobs = DOMAIN store.mobs]_vars

\* A movement of an existing mob to a paddock that does not exist was
\* answered 404, after an earlier movement had been recorded.
C27_Witness ==
    /\ req.op = "create_movement" /\ resp.status = 404
    /\ req.data.mob_id \in DOMAIN store.mobs
    /\ req.data.to_paddock_id \notin store.paddocks
    /\ \E i \in DOMAIN store.movements :
            store.movements[i] = Movement(1, Null, 2) /\ store.mobs[1].paddock_id = 2

(***************************************************************************)
(* C28.  After a successful set_mob_paddocks(mob, L) the paddocks          *)
(* allocated to the mob are the distinct positive ids of L, its paddock_id *)
(* is the first of them (null when there are none) and the allocations of  *)
(* every other mob are unchanged; when a requested paddock does not exist  *)
(* the call answers 404 and changes nothing.                               *)
(***************************************************************************)
SetStep == hist'.served = hist.served + 1 /\ req'.op = "set_mob_paddocks"
PositiveIds(L) == {L[i] : i \in {j \in DOMAIN L : L[j] > 0}}
FirstPositive(L) ==
    IF PositiveIds(L) = {} THEN Null
    ELSE L[CHOOSE i \in DOMAIN L : L[i] > 0 /\ \A j \in 1..(i - 1) : L[j] <= 0]
RowsOf(db, mob_id) == SelectSeq(db.allocs, LAMBDA a : a.mob_id = mob_id)

C28_SetMobPaddocks ==
    [][SetStep =>
        LET mob == req'.data.mob_id
            L == req'.data.paddock_ids
            missing == PositiveIds(L) \ store.paddocks # {}
        IN  /\ (mob \in DOMAIN store.mobs /\ missing) => (resp'.status = 404 /\ store' = store)
            /\ (mob \in DOMAIN store.mobs /\ ~missing) => resp'.status = 200
            /\ resp'.status # 200 => store' = store
            /\ resp'.status = 200 =>
                /\ AllocatedTo(store', mob) = PositiveIds(L)
                /\ Len(RowsOf(store', mob)) = Cardinality(PositiveIds(L))
                /\ store'.mobs[mob].paddock_id = FirstPositive(L)
                /\ \A other \in DOMAIN store.mobs \ {mob} :
                        /\ RowsOf(store', other) = RowsOf(store, other)
                        /\ store'.mobs[other] = store.mobs[other]]_vars

\* The list 2, 1, 2 was set for a mob: it is allocated to paddocks 1 and 2
\* and paddock 2 is its primary.
C28_Witness ==
    /\ req.op = "set_mob_paddocks" /\ resp.status = 200
    /\ req.data.paddock_ids = <<2, 1, 2>>
    /\ AllocatedTo(store, req.data.mob_id) = {1, 2}
    /\ store.mobs[req.data.mob_id].paddock_id = 2

(***************************************************************************)
(* C29.  set_mob_paddocks is idempotent: a successful call repeated at     *)
(* once with the same paddock list adds no allocation row and no movement  *)
(* and leaves the mob's primary paddock as it was; a movement is recorded  *)
(* only for a paddock that was not yet allocated to the mob.               *)
(***************************************************************************)
MovementsAdded ==
    SubSeq(store'.movements, Len(store.movements) + 1, Len(store'.movements))

C29_SetMobPaddocksIdempotent ==
    [][SetStep =>
        LET mob == req'.data.mob_id
        IN  /\ hist'.repeat =>
                /\ resp'.status = 200
                /\ store'.allocs = store.allocs
                /\ store'.movements = store.movements
                /\ store'.mobs[mob].paddock_id = store.mobs[mob].paddock_id
            /\ Len(store'.movements) >= Len(store.movements)
            /\ SubSeq(store'.movements, 1, Len(store.movements)) = store.movements
            /\ \A i \in DOMAIN MovementsAdded :
                    /\ MovementsAdded[i].mob_id = mob
                    /\ MovementsAdded[i].to_paddock_id \notin AllocatedTo(store, mob)]_vars

\* A call that allocated two paddocks was repeated with the same list.
C29_Witness ==
    /\ req.op = "set_mob_paddocks" /\ resp.status = 200 /\ hist.repeat
    /\ req.data.paddock_ids = <<1, 2>>
    /\ AllocatedTo(store, req.data.mob_id) = {1, 2}

(***************************************************************************)
(* C30.  parse_cors never enables credentials together with a wildcard     *)
(* origin: whatever CORS_ORIGINS is, a result that allows any origin ('*'  *)
(* in allow_origins, or the allow-all regex) has allow_credentials false.  *)
(***************************************************************************)
CorsDone == input.fn = "parse_cors" /\ output.done
AllowsAnyOrigin(cors) ==
    \/ Wildcard \in Range(cors.allow_origins)
    \/ cors.allow_origin_regex = AllowAllRegex

C30_NoCredentialsWithWildcard ==
    CorsDone => (AllowsAnyOrigin(output.ret) => ~output.ret.allow_credentials)

============================================================================
